---------------------------- MODULE Spec2Model ----------------------------
(***************************************************************************)
(* Model of the bank-statement extraction engine (GenericBankEngine) and   *)
(* its two bundled layout profiles (hdfc, union_bank).                     *)
(*                                                                         *)
(* Text is a sequence of one-character strings, so that the regular        *)
(* expressions of the layouts can be modelled by what they do to the       *)
(* characters.  Coordinates are integers (PDF units).                      *)
(***************************************************************************)
EXTENDS Integers, Sequences, FiniteSets, TLC

(***************************************************************************)
(* Characters and elementary string operations (Python str / re).          *)
(***************************************************************************)
UpperSeq ==
    <<"A","B","C","D","E","F","G","H","I","J","K","L","M",
      "N","O","P","Q","R","S","T","U","V","W","X","Y","Z">>
LowerSeq ==
    <<"a","b","c","d","e","f","g","h","i","j","k","l","m",
      "n","o","p","q","r","s","t","u","v","w","x","y","z">>
Upper == {UpperSeq[i] : i \in 1..Len(UpperSeq)}
Lower == {LowerSeq[i] : i \in 1..Len(LowerSeq)}
Digit == {"0","1","2","3","4","5","6","7","8","9"}
\* the characters \s matches, among those of the model's alphabet
Whitespace == {" "}
\* [A-Z0-9]
IdChars == Upper \cup Digit
\* [A-Z0-9\s] under re.I
IdSpaceChars == Upper \cup Lower \cup Digit \cup Whitespace
\* [,\-_\s]
SepChars == {",", "-", "_"} \cup Whitespace
\* [:\s]
ColonSpace == {":"} \cup Whitespace
\* [0-9,.]
AmountChars == Digit \cup {",", "."}

IsAlpha(c) == c \in Upper \cup Lower
IsSpace(c) == c \in Whitespace
NotSpace(c) == c \notin Whitespace

SetMin(S) == CHOOSE x \in S : \A y \in S : x <= y
SetMax(S) == CHOOSE x \in S : \A y \in S : x >= y
\* the least position of a set of positions, 0 if there is none
FirstOf(S) == IF S = {} THEN 0 ELSE SetMin(S)

\* the lower-case letter of each upper-case letter
LowerOf == [c \in Upper |-> LowerSeq[CHOOSE i \in 1..Len(UpperSeq) : UpperSeq[i] = c]]
ToLower(c) == IF c \in Upper THEN LowerOf[c] ELSE c
\* str.lower()
lower(s) == [i \in 1..Len(s) |-> ToLower(s[i])]


\* the literal lit occurs in s at position i (ci: ignoring case)
MatchAt(s, i, lit, ci) ==
    /\ i >= 1
    /\ i + Len(lit) - 1 <= Len(s)
    /\ \A k \in 1..Len(lit) : IF ci THEN ToLower(s[i + k - 1]) = ToLower(lit[k]) ELSE s[i + k - 1] = lit[k]

\* position of the leftmost occurrence of lit in s at or after from, 0 if none
Find(s, from, lit, ci) ==
    FirstOf({i \in from..(Len(s) - Len(lit) + 1) : MatchAt(s, i, lit, ci)})

\* Python: lit in s
Contains(s, lit) == Find(s, 1, lit, FALSE) # 0

\* any(k in s for k in kws)
ContainsAny(s, kws) == \E n \in 1..Len(kws) : Contains(s, kws[n])

\* s[from:] with every (non-overlapping, leftmost) occurrence of the non-empty
\* literal lit replaced by rep: re.sub(re.escape(lit), rep, s) / str.replace
RECURSIVE SubLiteralFrom(_, _, _, _, _)
SubLiteralFrom(s, from, lit, rep, ci) ==
    LET i == Find(s, from, lit, ci)
    IN  IF i = 0 THEN SubSeq(s, from, Len(s))
        ELSE SubSeq(s, from, i - 1) \o rep \o SubLiteralFrom(s, i + Len(lit), lit, rep, ci)

\* str.replace(old, new); with old = "" and new = "" Python returns s unchanged,
\* and new = "" is the only replacement the layouts use with a computed old
str_replace(s, old, new) ==
    IF Len(old) = 0 THEN s ELSE SubLiteralFrom(s, 1, old, new, FALSE)

\* last index of the maximal run of characters of cls that starts at i
\* (i - 1 when s[i] is not in cls or i is past the end)
RunEnd(s, i, cls) ==
    LET stops == {j \in i..Len(s) : s[j] \notin cls}
    IN  IF stops = {} THEN Len(s) ELSE SetMin(stops) - 1

\* str.strip()
strip(s) ==
    LET keep == {i \in 1..Len(s) : NotSpace(s[i])}
    IN  IF keep = {} THEN <<>> ELSE SubSeq(s, SetMin(keep), SetMax(keep))

\* re.sub(r'[,\-_\s]+$', '', s)
rstrip_sep(s) ==
    LET keep == {i \in 1..Len(s) : s[i] \notin SepChars}
    IN  IF keep = {} THEN <<>> ELSE SubSeq(s, 1, SetMax(keep))

\* re.sub(r'\s+', '', s)
remove_ws(s) == SelectSeq(s, NotSpace)

\* re.sub(r'\s+', ' ', s)
collapse_ws(s) ==
    LET FirstOfRun(i) == NotSpace(s[i]) \/ i = 1 \/ NotSpace(s[i - 1])
        kept == SelectSeq([i \in 1..Len(s) |-> i], FirstOfRun)
    IN  [n \in 1..Len(kept) |-> IF IsSpace(s[kept[n]]) THEN " " ELSE s[kept[n]]]

\* " ".join(parts)
RECURSIVE JoinFrom(_, _)
JoinFrom(parts, n) ==
    IF n > Len(parts) THEN <<>>
    ELSE IF n = Len(parts) THEN parts[n]
    ELSE parts[n] \o <<" ">> \o JoinFrom(parts, n + 1)
join_space(parts) == JoinFrom(parts, 1)

(***************************************************************************)
(* Regular expressions of clean_data (bank_layouts/hdfc.py, union_bank.py) *)
(***************************************************************************)
\* Pattern r'\s?'.join(list(w)) under re.I, tried at position i of s for the
\* letters w[k..]: index of the last character matched, 0 if no match.  A
\* white-space character and a letter are never the same character, so the
\* optional \s is taken exactly when there is one.
RECURSIVE MatchSpacedEnd(_, _, _, _)
MatchSpacedEnd(s, i, w, k) ==
    IF k > Len(w) THEN i - 1
    ELSE LET j == IF k > 1 /\ i <= Len(s) /\ IsSpace(s[i]) THEN i + 1 ELSE i
         IN  IF j <= Len(s) /\ ToLower(s[j]) = ToLower(w[k])
             THEN MatchSpacedEnd(s, j + 1, w, k + 1)
             ELSE 0

\* re.sub(pattern, w, s[from:], flags=re.I)
RECURSIVE FixSplitFrom(_, _, _)
FixSplitFrom(s, from, w) ==
    LET c == {i \in from..Len(s) : MatchSpacedEnd(s, i, w, 1) # 0}
    IN  IF c = {} THEN SubSeq(s, from, Len(s))
        ELSE SubSeq(s, from, SetMin(c) - 1) \o w
                 \o FixSplitFrom(s, MatchSpacedEnd(s, SetMin(c), w, 1) + 1, w)

\* for w in words: val = re.sub(pattern(w), w, val, flags=re.I)
RECURSIVE FixSplitWords(_, _, _)
FixSplitWords(s, words, n) ==
    IF n > Len(words) THEN s
    ELSE CHOOSE r \in {FixSplitWords(v, words, n + 1) :
                          v \in {FixSplitFrom(s, 1, words[n])}} : TRUE

\* re.sub(r'([A-Z0-9]{min1,})\s+([A-Z0-9]{min2,})', r'\1\2', s[from:]); with
\* lastDigit the first group is [A-Z0-9]{min1-1,}[0-9].  Both groups are whole
\* runs: the character after the first group must be white space and the one
\* after the white space must open the second group.
JoinIdsMatchAt(s, i, min1, lastDigit, min2) ==
    LET e1 == RunEnd(s, i, IdChars)
        ew == RunEnd(s, e1 + 1, Whitespace)
        e2 == RunEnd(s, ew + 1, IdChars)
    IN  /\ e1 - i + 1 >= min1
        /\ (lastDigit => s[e1] \in Digit)
        /\ ew >= e1 + 1
        /\ e2 - ew >= min2

RECURSIVE JoinIdsFrom(_, _, _, _, _)
JoinIdsFrom(s, from, min1, lastDigit, min2) ==
    LET c == {i \in from..Len(s) : JoinIdsMatchAt(s, i, min1, lastDigit, min2)}
        e1 == RunEnd(s, SetMin(c), IdChars)
        ew == RunEnd(s, e1 + 1, Whitespace)
        e2 == RunEnd(s, ew + 1, IdChars)
    IN  IF c = {} THEN SubSeq(s, from, Len(s))
        ELSE SubSeq(s, from, e1) \o SubSeq(s, ew + 1, e2)
                 \o JoinIdsFrom(s, e2 + 1, min1, lastDigit, min2)

\* for k in NOISE_KEYWORDS: val = re.sub(re.escape(k), "", val, flags=re.IGNORECASE)
RECURSIVE RemoveKeywords(_, _, _)
RemoveKeywords(s, kws, n) ==
    IF n > Len(kws) THEN s
    ELSE CHOOSE r \in {RemoveKeywords(v, kws, n + 1) :
                          v \in {SubLiteralFrom(s, 1, kws[n], <<>>, TRUE)}} : TRUE

\* re.split(alternatives, s, flags=re.I)[0], which is also
\* re.sub(r'(alternatives).*', '', s, flags=re.IGNORECASE)
SplitFirst(s, alts) ==
    LET i == FirstOf({p \in 1..Len(s) :
                         \E n \in 1..Len(alts) : MatchAt(s, p, alts[n], TRUE)})
    IN  IF i = 0 THEN s ELSE SubSeq(s, 1, i - 1)

\* re.sub(r'[^...]', '', s) for a class given as the set of characters kept
KeepChars(s, cls) ==
    LET Kept(c) == c \in cls IN SelectSeq(s, Kept)


(***************************************************************************)
(* Layout profiles: bank_layouts/hdfc.py and bank_layouts/union_bank.py    *)
(***************************************************************************)
Banks == {"hdfc", "union_bank"}

\* COLUMNS, in declaration order: name and x-range
HDFC_COLUMNS ==
    << [name |-> "Date",           x0 |-> 0,   x1 |-> 68],
       [name |-> "Narration",      x0 |-> 68,  x1 |-> 260],
       [name |-> "Chq./Ref.No.",   x0 |-> 260, x1 |-> 350],
       [name |-> "ValueDt",        x0 |-> 350, x1 |-> 410],
       [name |-> "WithdrawalAmt",  x0 |-> 410, x1 |-> 490],
       [name |-> "DepositAmt",     x0 |-> 490, x1 |-> 560],
       [name |-> "ClosingBalance", x0 |-> 560, x1 |-> 850] >>
UNION_COLUMNS ==
    << [name |-> "Date",        x0 |-> 0,   x1 |-> 100],
       [name |-> "Remarks",     x0 |-> 100, x1 |-> 198],
       [name |-> "Tran Id-1",   x0 |-> 198, x1 |-> 278],
       [name |-> "Instr. ID",   x0 |-> 0,   x1 |-> 0],
       [name |-> "UTR Number",  x0 |-> 278, x1 |-> 450],
       [name |-> "Withdrawals", x0 |-> 450, x1 |-> 545],
       [name |-> "Deposits",    x0 |-> 545, x1 |-> 642],
       [name |-> "Balance",     x0 |-> 642, x1 |-> 842] >>
LAYOUT_COLUMNS(bank) == IF bank = "hdfc" THEN HDFC_COLUMNS ELSE UNION_COLUMNS

\* NORMALIZATION_MAP: raw column key -> output key
HDFC_NORMALIZATION_MAP ==
    [k \in {"Date", "Narration", "Chq./Ref.No.", "ValueDt", "WithdrawalAmt",
            "DepositAmt", "ClosingBalance"} |->
        CASE k = "Date" -> "date"
          [] k = "WithdrawalAmt" -> "Withdraw"
          [] k = "DepositAmt" -> "Deposit"
          [] OTHER -> k]
UNION_NORMALIZATION_MAP ==
    [k \in {"Date", "Remarks", "Tran Id-1", "Instr. ID", "UTR Number",
            "Withdrawals", "Deposits", "Balance"} |->
        CASE k = "Date" -> "date"
          [] k = "Withdrawals" -> "Withdrawal"
          [] k = "Deposits" -> "Deposit"
          [] k = "Balance" -> "balance"
          [] OTHER -> k]
NORMALIZATION_MAP(bank) ==
    IF bank = "hdfc" THEN HDFC_NORMALIZATION_MAP ELSE UNION_NORMALIZATION_MAP

\* PAGE_RULES
header_y_max(bank) == IF bank = "hdfc" THEN 200 ELSE 250
\* footer_y_min_ratio, in hundredths
footer_y_min_pct(bank) == IF bank = "hdfc" THEN 90 ELSE 92
continuation_gap(bank) == IF bank = "hdfc" THEN 40 ELSE 45

HDFC_TRANSACTION_START_KEYWORDS ==
    << <<"r","t","g","s">>,
       <<"i","m","p","s">>,
       <<"u","p","i">>,
       <<"n","e","f","t">>,
       <<"c","h","q","d","e","p">> >>
UNION_TRANSACTION_START_KEYWORDS ==
    << <<"r","t","g","s">>,
       <<"e","p","a","y">>,
       <<"n","e","f","t",":">>,
       <<"c","o","l","l","e","c","t","i","o","n">>,
       <<"i","m","p","s">> >>
TRANSACTION_START_KEYWORDS(bank) ==
    IF bank = "hdfc" THEN HDFC_TRANSACTION_START_KEYWORDS
    ELSE UNION_TRANSACTION_START_KEYWORDS

HDFC_NOISE_KEYWORDS ==
    << <<"c","l","o","s","i","n","g"," ","b","a","l","a","n","c","e"," ","i","n","c","l","u","d","e","s">>,
       <<"c","l","o","s","i","n","g","b","a","l","a","n","c","e","i","n","c","l","u","d","e","s">>,
       <<"c","o","n","t","e","n","t","s"," ","o","f"," ","t","h","i","s"," ","s","t","a","t","e","m","e","n","t">>,
       <<"c","o","n","t","e","n","t","s","o","f","t","h","i","s","s","t","a","t","e","m","e","n","t">>,
       <<"r","e","g","i","s","t","e","r","e","d"," ","o","f","f","i","c","e">>,
       <<"r","e","g","i","s","t","e","r","e","d","o","f","f","i","c","e">>,
       <<"g","s","t","i","n">>,
       <<"g","e","n","e","r","a","t","e","d"," ","o","n">>,
       <<"r","e","q","u","e","s","t","i","n","g"," ","b","r","a","n","c","h">>,
       <<"t","h","i","s"," ","i","s"," ","a"," ","c","o","m","p","u","t","e","r"," ","g","e","n","e","r","a","t","e","d">>,
       <<"t","h","i","s","i","s","a","c","o","m","p","u","t","e","r","g","e","n","e","r","a","t","e","d">>,
       <<"p","a","g","e"," ","n","o">>,
       <<"h","d","f","c"," ","b","a","n","k">>,
       <<"h","d","f","c","b","a","n","k">>,
       <<"s","t","a","t","e","a","c","c","o","u","n","t","r","e","c","e","i","p","t">>,
       <<"f","u","n","d","s","e","a","r","m","a","r","k","e","d">>,
       <<"s","t","a","t","u","t","o","r","y","d","i","s","c","l","a","i","m","e","r">>,
       <<"d","i","s","c","l","a","i","m","e","r">> >>
UNION_NOISE_KEYWORDS ==
    << <<"f","o","r"," ","a","n","y"," ","q","u","e","r","i","e","s">>,
       <<"c","u","s","t","o","m","e","r"," ","s","e","r","v","i","c","e">>,
       <<"t","h","i","s"," ","i","s"," ","a"," ","s","y","s","t","e","m"," ","g","e","n","e","r","a","t","e","d">>,
       <<"n","o"," ","s","i","g","n","a","t","u","r","e">>,
       <<"a","v","a","i","l"," ","o","u","r"," ","l","o","a","n">>,
       <<"m","i","s","s","e","d"," ","c","a","l","l">>,
       <<"s","m","s">>,
       <<"d","i","s","c","r","e","p","a","n","c","y">>,
       <<"p","a","g","e"," ","n","o">>,
       <<"u","n","i","o","n"," ","b","a","n","k">>,
       <<"s","t","a","t","e","m","e","n","t"," ","o","f"," ","a","c","c","o","u","n","t">>,
       <<"g","e","n","e","r","a","t","e","d"," ","o","n">>,
       <<"m","i","s","s","e","d"," ","c","a","l","l"," ","a","t">>,
       <<"u","l","o","a","n">>,
       <<"c","o","m","p","u","t","e","r"," ","g","e","n","e","r","a","t","e","d">>,
       <<"v","i","s","i","t"," ","o","u","r"," ","w","e","b","s","i","t","e">> >>
NOISE_KEYWORDS(bank) ==
    IF bank = "hdfc" THEN HDFC_NOISE_KEYWORDS ELSE UNION_NOISE_KEYWORDS

\* the words whose OCR-split letters clean_data reassembles
HDFC_SPLIT_WORDS ==
    << <<"N","E","T","B","A","N","K">>,
       <<"P","H","O","N","E">>,
       <<"H","D","F","C","B","A","N","K">>,
       <<"P","A","Y","M","E","N","T">>,
       <<"F","R","O","M">> >>
UNION_SPLIT_WORDS ==
    << <<"N","E","T","B","A","N","K">>,
       <<"P","H","O","N","E">>,
       <<"H","D","F","C","B","A","N","K">>,
       <<"P","A","Y","M","E","N","T">>,
       <<"F","R","O","M">>,
       <<"C","O","L","L","E","C","T","I","O","N">> >>

\* known OCR misreads and their replacements
ULTISTATECOOP == <<"U","L","T","I","S","T","A","T","E","C","O","O","P">>
MULTISTATE_COOP == <<"M","U","L","T","I","S","T","A","T","E"," ","C","O","O","P">>
SOLERPLY == <<"S","O","L","E","R","P","L","Y">>
SOLAR_SUPPLY == <<"S","O","L","A","R"," ","S","U","P","P","L","Y">>

\* footer markers at which the HDFC narration is truncated
HDFC_FOOTER_MARKERS ==
    << <<"R","e","g","i","s","t","e","r","e","d","O","f","f","i","c","e">>,
       <<"H","D","F","C","B","a","n","k","H","o","u","s","e">>,
       <<"*","C","l","o","s","i","n","g","b","a","l","a","n","c","e">> >>
\* metadata prefixes cut from the HDFC reference column
HDFC_REF_PREFIXES ==
    << <<"G","e","n","e","r","a","t","e","d","B","y">>,
       <<"R","e","q","u","e","s","t","i","n","g","B","r","a","n","c","h","C","o","d","e">> >>

\* hdfc.clean_data, cat == "Narration"; each step is applied to the value of
\* the step before
hdfc_clean_narration(val) ==
    LET s1 == {FixSplitWords(val, HDFC_SPLIT_WORDS, 1)}
        s2 == {JoinIdsFrom(v, 1, 3, FALSE, 8) : v \in s1}
        s3 == {JoinIdsFrom(v, 1, 8, FALSE, 3) : v \in s2}
        s4 == {str_replace(v, ULTISTATECOOP, MULTISTATE_COOP) : v \in s3}
        s5 == {str_replace(v, SOLERPLY, SOLAR_SUPPLY) : v \in s4}
        s6 == {RemoveKeywords(v, HDFC_NOISE_KEYWORDS, 1) : v \in s5}
        s7 == {IF ContainsAny(v, HDFC_FOOTER_MARKERS)
               THEN SplitFirst(v, HDFC_FOOTER_MARKERS) ELSE v : v \in s6}
        s8 == {strip(collapse_ws(v)) : v \in s7}
    IN  CHOOSE r \in {rstrip_sep(v) : v \in s8} : TRUE

\* hdfc.clean_data, monetary columns
hdfc_clean_amount(val) ==
    IF \E i \in 1..Len(val) : IsAlpha(val[i]) THEN <<>>
    ELSE strip(KeepChars(val, Digit \cup {".", ","}))

\* hdfc.clean_data, cat == "Chq./Ref.No."
hdfc_clean_ref(val) ==
    strip(remove_ws(rstrip_sep(SplitFirst(val, HDFC_REF_PREFIXES))))

hdfc_clean_data(cat, val) ==
    IF val = <<>> THEN <<>>
    ELSE IF cat = "Narration" THEN hdfc_clean_narration(val)
    ELSE IF cat \in {"WithdrawalAmt", "DepositAmt", "ClosingBalance"}
         THEN hdfc_clean_amount(val)
    ELSE IF cat = "Chq./Ref.No." THEN hdfc_clean_ref(val)
    ELSE strip(val)

\* union_bank.clean_data, cat == "Remarks"
union_clean_remarks(val) ==
    LET s1 == {FixSplitWords(val, UNION_SPLIT_WORDS, 1)}
        s2 == {JoinIdsFrom(v, 1, 4, TRUE, 8) : v \in s1}
        s3 == {JoinIdsFrom(v, 1, 9, TRUE, 3) : v \in s2}
        s4 == {str_replace(v, ULTISTATECOOP, MULTISTATE_COOP) : v \in s3}
        s5 == {str_replace(v, SOLERPLY, SOLAR_SUPPLY) : v \in s4}
        s6 == {RemoveKeywords(v, UNION_NOISE_KEYWORDS, 1) : v \in s5}
        s7 == {strip(collapse_ws(v)) : v \in s6}
    IN  CHOOSE r \in {strip(rstrip_sep(v)) : v \in s7} : TRUE

\* union_bank.clean_data, monetary columns
union_clean_amount(val) ==
    IF \E i \in 1..Len(val) : IsAlpha(val[i]) THEN <<>>
    ELSE strip(KeepChars(val, Digit \cup {".", ",", "-"}))

\* union_bank.clean_data, cat in ["Tran Id-1", "UTR Number", "Date"]
union_clean_ref(cat, val) ==
    IF cat \in {"Tran Id-1", "UTR Number"} THEN strip(remove_ws(val)) ELSE strip(val)

union_clean_data(cat, val) ==
    IF val = <<>> THEN <<>>
    ELSE IF cat = "Remarks" THEN union_clean_remarks(val)
    ELSE IF cat \in {"Withdrawals", "Deposits", "Balance"}
         THEN union_clean_amount(val)
    ELSE IF cat \in {"Tran Id-1", "UTR Number", "Date"} THEN union_clean_ref(cat, val)
    ELSE strip(val)

\* self.layout.clean_data
clean_data(bank, cat, val) ==
    IF bank = "hdfc" THEN hdfc_clean_data(cat, val) ELSE union_clean_data(cat, val)


(***************************************************************************)
(* Records: functions from column keys to text.  An optional record (a     *)
(* Python value that may be None) is a sequence of length 0 or 1.          *)
(***************************************************************************)
None == <<>>
Some(r) == <<r>>

\* dict.get(k, "")
Get(r, k) == IF k \in DOMAIN r THEN r[k] ELSE <<>>

\* the characters of a column key, for the substring tests on keys
KeyText(k) ==
    CASE k = "Date" -> <<"D","a","t","e">>
      [] k = "Narration" -> <<"N","a","r","r","a","t","i","o","n">>
      [] k = "Chq./Ref.No." -> <<"C","h","q",".","/","R","e","f",".","N","o",".">>
      [] k = "ValueDt" -> <<"V","a","l","u","e","D","t">>
      [] k = "WithdrawalAmt" -> <<"W","i","t","h","d","r","a","w","a","l","A","m","t">>
      [] k = "DepositAmt" -> <<"D","e","p","o","s","i","t","A","m","t">>
      [] k = "ClosingBalance" -> <<"C","l","o","s","i","n","g","B","a","l","a","n","c","e">>
      [] k = "Remarks" -> <<"R","e","m","a","r","k","s">>
      [] k = "Tran Id-1" -> <<"T","r","a","n"," ","I","d","-","1">>
      [] k = "Instr. ID" -> <<"I","n","s","t","r","."," ","I","D">>
      [] k = "UTR Number" -> <<"U","T","R"," ","N","u","m","b","e","r">>
      [] k = "Withdrawals" -> <<"W","i","t","h","d","r","a","w","a","l","s">>
      [] k = "Deposits" -> <<"D","e","p","o","s","i","t","s">>
      [] k = "Balance" -> <<"B","a","l","a","n","c","e">>
      [] k = "date" -> <<"d","a","t","e">>
      [] k = "Withdraw" -> <<"W","i","t","h","d","r","a","w">>
      [] k = "Deposit" -> <<"D","e","p","o","s","i","t">>
      [] k = "Withdrawal" -> <<"W","i","t","h","d","r","a","w","a","l">>
      [] k = "balance" -> <<"b","a","l","a","n","c","e">>

\* any(m in k for m in marks)
KeyHasAny(k, marks) == ContainsAny(KeyText(k), marks)

ColumnNames(cols) == {cols[n].name : n \in 1..Len(cols)}

S_Date == <<"D","a","t","e">>
S_Sender == <<"S","e","n","d","e","r">>
S_No == <<"N","o">>
\* key markers of _finalize_record, _merge_split_records and extract_data
FINALIZE_REF_KEYS ==
    << <<"R","e","f">>,
       <<"T","r","a","n"," ","I","d">>,
       <<"U","T","R">> >>
FINALIZE_MONEY_KEYS ==
    << <<"A","m","t">>,
       <<"W","i","t","h","d","r","a","w","a","l">>,
       <<"D","e","p","o","s","i","t">>,
       <<"B","a","l","a","n","c","e">> >>
MONEY_COLS ==
    << <<"A","m","t">>,
       <<"W","i","t","h","d","r","a","w","a","l">>,
       <<"D","e","p","o","s","i","t">> >>
ORPHAN_REF_MARKS ==
    << <<"R","e","f">>,
       <<"T","r","a","n"," ","I","d">> >>
MERGE_REF_COLS == <<"Chq./Ref.No.", "Tran Id-1", "UTR Number">>
MERGE_REM_COLS == <<"Narration", "Remarks">>
critical_noise ==
    << <<"r","e","g","i","s","t","e","r","e","d"," ","o","f","f","i","c","e">>,
       <<"g","s","t","i","n">>,
       <<"c","o","n","t","e","n","t","s"," ","o","f"," ","t","h","i","s"," ","s","t","a","t","e","m","e","n","t">>,
       <<"f","o","r"," ","a","n","y"," ","q","u","e","r","i","e","s">>,
       <<"c","u","s","t","o","m","e","r"," ","s","e","r","v","i","c","e">> >>
dr_keywords ==
    << <<"c","h","a","r","g","e","s">>,
       <<"n","e","f","t","d","r">>,
       <<"r","t","g","s","d","r">>,
       <<"i","n","t","e","r","e","s","t">>,
       <<"p","e","n","a","l">>,
       <<"d","r">> >>
cr_keywords ==
    << <<"n","e","f","t">>,
       <<"r","t","g","s">>,
       <<"c","a","s","h">>,
       <<"l","o","a","n">>,
       <<"c","r">> >>

(***************************************************************************)
(* post_process_record of the two layouts                                  *)
(***************************************************************************)
\* hdfc.post_process_record: Date / ValueDt synchronisation; the assignment
\* record[key] = value adds the key when the record lacks it
hdfc_post_process_record(record) ==
    LET dt  == Get(record, "Date")
        vdt == Get(record, "ValueDt")
    IN  IF dt # <<>> /\ vdt = <<>>
        THEN [k \in DOMAIN record \cup {"ValueDt"} |-> IF k = "ValueDt" THEN dt ELSE record[k]]
        ELSE IF vdt # <<>> /\ dt = <<>>
        THEN [k \in DOMAIN record \cup {"Date"} |-> IF k = "Date" THEN vdt ELSE record[k]]
        ELSE record

\* r'([0-9,.]+\.\d{2})' tried at position i: index of the last character of the
\* (greedy, hence longest) match, 0 if none
AmountMatchEnd(s, i) ==
    LET e == RunEnd(s, i, AmountChars)
        c == {p \in (i + 3)..e : s[p - 2] = "." /\ s[p - 1] \in Digit /\ s[p] \in Digit}
    IN  IF c = {} THEN 0 ELSE SetMax(c)

\* re.findall(r'([0-9,.]+\.\d{2})', s[from:])
RECURSIVE FindAmountsFrom(_, _)
FindAmountsFrom(s, from) ==
    LET c == {i \in from..Len(s) : AmountMatchEnd(s, i) # 0}
        e == AmountMatchEnd(s, SetMin(c))
    IN  IF c = {} THEN <<>>
        ELSE <<SubSeq(s, SetMin(c), e)>> \o FindAmountsFrom(s, e + 1)

\* s.split("-")[-1]
AfterLastDash(s) ==
    LET d == {i \in 1..Len(s) : s[i] = "-"}
    IN  IF d = {} THEN s ELSE SubSeq(s, SetMax(d) + 1, Len(s))

\* r'Sender\s*No[:\s]*([A-Z0-9\s]+)' under re.I, tried at position i: the
\* match as [ok, first, last, group] (group: index of the first character of
\* group 1).  [:\s]* is greedy and gives characters back until group 1 can
\* start; group 1 then takes the whole run.
SenderMatchAt(s, i) ==
    LET w == RunEnd(s, i + Len(S_Sender), Whitespace)
        b == w + Len(S_No) + 1
        t == RunEnd(s, b, ColonSpace)
        c == {k \in (b - 1)..t : k + 1 <= Len(s) /\ s[k + 1] \in IdSpaceChars}
        head == MatchAt(s, i, S_Sender, TRUE) /\ MatchAt(s, w + 1, S_No, TRUE)
    IN  IF head /\ c # {}
        THEN [ok |-> TRUE, first |-> i, group |-> SetMax(c) + 1,
              last |-> RunEnd(s, SetMax(c) + 1, IdSpaceChars)]
        ELSE [ok |-> FALSE, first |-> 0, group |-> 0, last |-> 0]

\* re.search of the pattern above
SenderSearch(s) ==
    SenderMatchAt(s, FirstOf({i \in 1..Len(s) : SenderMatchAt(s, i).ok}))

\* balance-bleed repair: the new balance, given the amount extracted
bleed_balance(balance, extracted_amt) ==
    LET rest == strip(AfterLastDash(SubSeq(balance, Len(extracted_amt) + 1,
                                           Len(balance))))
    IN  IF Contains(rest, <<"-">>) THEN <<"-">> \o rest ELSE rest

\* balance-bleed repair, with rem_lower = remarks.lower() and
\* parts = re.findall(r'([0-9,.]+\.\d{2})', balance)
bleed_split(rem_lower, withdrawals, deposits, balance, parts) ==
    IF Len(parts) >= 2
    THEN IF ContainsAny(rem_lower, dr_keywords)
         THEN [withdrawals |-> parts[1], deposits |-> deposits,
               balance |-> bleed_balance(balance, parts[1])]
         ELSE IF ContainsAny(rem_lower, cr_keywords)
         THEN [withdrawals |-> withdrawals, deposits |-> parts[1],
               balance |-> bleed_balance(balance, parts[1])]
         ELSE [withdrawals |-> parts[1], deposits |-> deposits,
               balance |-> bleed_balance(balance, parts[1])]
    ELSE [withdrawals |-> withdrawals, deposits |-> deposits, balance |-> balance]

\* union_bank.post_process_record, balance-bleed repair: the
\* [withdrawals, deposits, balance] after it
union_balance_bleed(remarks, withdrawals, deposits, balance) ==
    IF withdrawals = <<>> /\ deposits = <<>> /\ balance # <<>>
    THEN bleed_split(lower(remarks), withdrawals, deposits, balance,
                     FindAmountsFrom(balance, 1))
    ELSE [withdrawals |-> withdrawals, deposits |-> deposits, balance |-> balance]

\* "Sender No" relocation, with full_found = match.group(0).strip() and
\* sender_val = match.group(1).strip()
sender_move_found(remarks, tran_id, full_found, sender_val) ==
    [remarks |-> strip(str_replace(strip(str_replace(remarks, full_found, <<>>)),
                                   sender_val, <<>>)),
     tran_id |-> strip(str_replace(tran_id, full_found, <<>>)),
     utr |-> <<"S","e","n","d","e","r"," ","N","o",":"," ">> \o remove_ws(sender_val)]

\* "Sender No" relocation, with m the match of the pattern in joined
sender_move_match(remarks, tran_id, utr, joined, m) ==
    IF m.ok
    THEN sender_move_found(remarks, tran_id, strip(SubSeq(joined, m.first, m.last)),
                           strip(SubSeq(joined, m.group, m.last)))
    ELSE [remarks |-> remarks, tran_id |-> tran_id, utr |-> utr]

\* union_bank.post_process_record, "Sender No" relocation: the
\* [remarks, tran_id, utr] after it
union_sender_move(remarks, tran_id, utr) ==
    sender_move_match(remarks, tran_id, utr,
                      tran_id \o <<" ">> \o remarks \o <<" ">> \o utr,
                      SenderSearch(tran_id \o <<" ">> \o remarks \o <<" ">> \o utr))

\* union_bank.post_process_record, spillover check: the balance after it
union_spillover(withdrawals, deposits, balance) ==
    LET curr_amount == IF withdrawals # <<>> THEN withdrawals ELSE deposits
    IN  IF curr_amount # <<>> /\ balance = curr_amount THEN <<>> ELSE balance

\* union_bank.post_process_record: the record written back, with a the
\* outcome of the balance-bleed repair and b that of the relocation
union_assemble(record, a, b) ==
    [k \in {"Date", "Remarks", "Tran Id-1", "Instr. ID", "UTR Number",
            "Withdrawals", "Deposits", "Balance"} |->
        CASE k = "Date" -> Get(record, "Date")
          [] k = "Remarks" -> strip(collapse_ws(b.remarks))
          [] k = "Tran Id-1" -> remove_ws(b.tran_id)
          [] k = "Instr. ID" -> Get(record, "Instr. ID")
          [] k = "UTR Number" -> b.utr
          [] k = "Withdrawals" -> a.withdrawals
          [] k = "Deposits" -> a.deposits
          [] k = "Balance" -> union_spillover(a.withdrawals, a.deposits, a.balance)]

\* union_bank.post_process_record
union_post_process_record(record) ==
    union_assemble(record,
                   union_balance_bleed(Get(record, "Remarks"), Get(record, "Withdrawals"),
                                       Get(record, "Deposits"), Get(record, "Balance")),
                   union_sender_move(Get(record, "Remarks"), Get(record, "Tran Id-1"),
                                     Get(record, "UTR Number")))

\* self.layout.post_process_record
post_process_record(bank, record) ==
    IF bank = "hdfc" THEN hdfc_post_process_record(record)
    ELSE union_post_process_record(record)


(***************************************************************************)
(* GenericBankEngine (app/services/scraper.py): the pure parts             *)
(***************************************************************************)
\* " ".join([w['text'] for w in line])
line_text(line) == join_space([n \in 1..Len(line) |-> line[n].text])

\* is_line_noise; page_height * footer_y_min_ratio is compared in hundredths
is_line_noise(bank, text, top, page_height) ==
    \E text_lower \in {lower(text)} :
        LET kws == NOISE_KEYWORDS(bank)
            match_count == Cardinality({n \in 1..Len(kws) : Contains(text_lower, kws[n])})
        IN  \/ /\ top * 100 > page_height * footer_y_min_pct(bank)
               /\ ContainsAny(text_lower, kws)
            \/ match_count >= 2
            \/ ContainsAny(text_lower, critical_noise)

\* re.match(r'^\d{1,2}:\d{2}(:\d{2})?$', w)
IsClockTime(w) ==
    \E h \in {1, 2} :
        /\ Len(w) \in {h + 3, h + 6}
        /\ \A i \in 1..h : w[i] \in Digit
        /\ w[h + 1] = ":" /\ w[h + 2] \in Digit /\ w[h + 3] \in Digit
        /\ Len(w) = h + 6 => w[h + 4] = ":" /\ w[h + 5] \in Digit /\ w[h + 6] \in Digit

\* number of digits DATE_PATTERN accepts for day and for month:
\* hdfc \d{1,2}[/-]\d{1,2}[/-]\d{2,4}, union_bank \d{2}[/-]\d{2}[/-]\d{2,4}
DateFieldLens(bank) == IF bank = "hdfc" THEN {1, 2} ELSE {2}

\* DATE_PATTERN matches s at position i
DateMatchAt(bank, s, i) ==
    \E a \in DateFieldLens(bank), b \in DateFieldLens(bank) :
        /\ i >= 1 /\ i + a + b + 3 <= Len(s)
        /\ \A k \in i..(i + a - 1) : s[k] \in Digit
        /\ s[i + a] \in {"/", "-"}
        /\ \A k \in (i + a + 1)..(i + a + b) : s[k] \in Digit
        /\ s[i + a + b + 1] \in {"/", "-"}
        /\ s[i + a + b + 2] \in Digit /\ s[i + a + b + 3] \in Digit

\* DATE_PATTERN.search(s) is not None
DateSearch(bank, s) == \E i \in 1..Len(s) : DateMatchAt(bank, s, i)

\* variant: a start keyword starts a transaction whether or not the line holds a date
start_without_date(bank, line, text) ==
    LET first_word == strip(line[1].text)
        text_lower == lower(text)
        x_pos == line[1].x0
    IN  IF IsClockTime(first_word) THEN FALSE
        ELSE IF DateMatchAt(bank, first_word, 1) /\ x_pos < 120 THEN TRUE
        ELSE ContainsAny(text_lower, TRANSACTION_START_KEYWORDS(bank)) /\ x_pos < 150

\* is_transaction_start
is_transaction_start(bank, line, text) ==
    LET first_word == strip(line[1].text)
        text_lower == lower(text)
        x_pos == line[1].x0
        has_embedded_date == DateSearch(bank, text)
    IN  IF IsClockTime(first_word) THEN FALSE
        ELSE IF DateMatchAt(bank, first_word, 1) /\ x_pos < 120 THEN TRUE
        ELSE IF /\ has_embedded_date
                /\ ContainsAny(text_lower, TRANSACTION_START_KEYWORDS(bank))
                /\ x_pos < 150
             THEN TRUE
        ELSE FALSE


\* overlap = min(word['x1'], x_end) - max(word['x0'], x_start)
Overlap(word, col) ==
    (IF word.x1 < col.x1 THEN word.x1 ELSE col.x1)
        - (IF word.x0 > col.x0 THEN word.x0 ELSE col.x0)

\* variant: a later column of the same overlap replaces the earlier one
overlap_ties(overlap, max_overlap) == overlap >= max_overlap
\* if overlap > max_overlap
overlap_beats(overlap, max_overlap) == overlap > max_overlap

\* the loop over self.columns.items() from column n on: best_col is the index
\* in cols of the column kept so far (0: None)
RECURSIVE best_col_from(_, _, _, _, _)
best_col_from(word, cols, n, max_overlap, best_col) ==
    IF n > Len(cols) THEN best_col
    ELSE IF overlap_beats(Overlap(word, cols[n]), max_overlap)
         THEN best_col_from(word, cols, n + 1, Overlap(word, cols[n]), n)
         ELSE best_col_from(word, cols, n + 1, max_overlap, best_col)

\* index in cols of best_col for a word (0: no column); max_overlap starts at 0
BestCol(word, cols) == best_col_from(word, cols, 1, 0, 0)

\* best_col of every word of the line, as <<column index, text>> pairs
assign_columns(line, cols) ==
    [n \in 1..Len(line) |-> <<BestCol(line[n], cols), line[n].text>>]

\* row_data: for each column, by its index in cols, the texts of the line's
\* words assigned to it
row_data(line, cols) ==
    CHOOSE rd \in
        {[n \in 1..Len(cols) |-> LET InCol(a) == a[1] = n
                                     ws == SelectSeq(asg, InCol)
                                 IN  [m \in 1..Len(ws) |-> ws[m][2]]] :
            asg \in {assign_columns(line, cols)}} : TRUE

\* any(row_data.values())
any_row_data(line, cols) == \E n \in 1..Len(line) : BestCol(line[n], cols) # 0

\* flat_row = {k: " ".join(v).strip() for k, v in row_data.items()}
flat_row(line, cols) ==
    CHOOSE fr \in
        {[c \in ColumnNames(cols) |->
            strip(join_space(rd[CHOOSE n \in 1..Len(cols) : cols[n].name = c]))] :
            rd \in {row_data(line, cols)}} : TRUE

\* the continuation branch: the open record's columns after merging a flat row
merge_continuation(rec, row) ==
    [k \in DOMAIN rec \cup {c \in DOMAIN row : row[c] # <<>>} |->
        LET v == Get(row, k)
            old_val == Get(rec, k)
        IN  IF v # <<>> /\ v # old_val THEN strip(old_val \o <<" ">> \o v) ELSE old_val]

\* has_ref of the orphan branch
orphan_has_ref(row, cols) ==
    \E n \in 1..Len(cols) :
        KeyHasAny(cols[n].name, ORPHAN_REF_MARKS) /\ Get(row, cols[n].name) # <<>>

\* key normalization of _finalize_record
NormKey(bank, k) ==
    IF k \in DOMAIN NORMALIZATION_MAP(bank) THEN NORMALIZATION_MAP(bank)[k] ELSE k

normalize_record(bank, rec) ==
    [nk \in {NormKey(bank, k) : k \in DOMAIN rec} |->
        rec[CHOOSE k \in DOMAIN rec : NormKey(bank, k) = nk]]

\* _finalize_record after the cleaning loop: the emptiness test, the
\* post-processing and the key normalization
finalize_cleaned(bank, cols, cleaned) ==
    LET remarks == IF Get(cleaned, "Narration") # <<>>
                   THEN Get(cleaned, "Narration") ELSE Get(cleaned, "Remarks")
        has_ref == \E n \in 1..Len(cols) :
                       /\ KeyHasAny(cols[n].name, FINALIZE_REF_KEYS)
                       /\ Get(cleaned, cols[n].name) # <<>>
        has_money == \E n \in 1..Len(cols) :
                       /\ KeyHasAny(cols[n].name, FINALIZE_MONEY_KEYS)
                       /\ Get(cleaned, cols[n].name) # <<>>
    IN  IF remarks = <<>> /\ ~has_money /\ ~has_ref THEN None
        ELSE Some(normalize_record(bank, post_process_record(bank, cleaned)))

\* _finalize_record: an optional record.  record holds the accumulated columns
\* (the '_lt' entry is kept beside it and is not a column).
finalize_record(bank, cols, record) ==
    finalize_cleaned(bank, cols, [c \in DOMAIN record \cap ColumnNames(cols) |->
                                     clean_data(bank, c, record[c])])

\* _merge_split_records: the pair test for data[i], data[i+1]
merge_keys(curr) ==
    LET refs == {n \in 1..Len(MERGE_REF_COLS) : MERGE_REF_COLS[n] \in DOMAIN curr}
        rems == {n \in 1..Len(MERGE_REM_COLS) : MERGE_REM_COLS[n] \in DOMAIN curr}
    IN  [has_ref |-> refs # {},
         ref_key |-> IF refs = {} THEN "" ELSE MERGE_REF_COLS[SetMin(refs)],
         rem_key |-> IF rems = {} THEN "Remarks" ELSE MERGE_REM_COLS[SetMin(rems)],
         money_cols |-> {k \in DOMAIN curr : KeyHasAny(k, MONEY_COLS)}]

\* variant: one of the two records having money is enough
either_has_money(has_money_curr, has_money_next) == has_money_curr \/ has_money_next
\* has_money_curr != has_money_next
complementary_money(has_money_curr, has_money_next) == has_money_curr # has_money_next

\* the pair test, with mk the keys found in curr
should_merge_by(curr, nxt, mk) ==
    LET curr_ref == Get(curr, mk.ref_key)
        next_ref == Get(nxt, mk.ref_key)
        same_date == "Date" \in DOMAIN nxt /\ curr["Date"] = nxt["Date"]
        same_ref == curr_ref = next_ref /\ curr_ref # <<>>
        has_money_curr == \E k \in mk.money_cols : Get(curr, k) # <<>>
        has_money_next == \E k \in mk.money_cols : Get(nxt, k) # <<>>
    IN  /\ mk.has_ref
        /\ "Date" \in DOMAIN curr
        /\ same_date /\ same_ref /\ complementary_money(has_money_curr, has_money_next)

\* _merge_split_records: the record that replaces a merged pair, with mk the
\* keys found in curr
merged_pair_by(bank, curr, nxt, mk) ==
    LET text == clean_data(bank, mk.rem_key,
                           strip(Get(curr, mk.rem_key) \o <<" ">> \o Get(nxt, mk.rem_key)))
    IN  [k \in DOMAIN curr \cup {mk.rem_key} |->
            IF k = mk.rem_key THEN text
            ELSE IF k \in mk.money_cols /\ Get(nxt, k) # <<>> THEN nxt[k]
            ELSE curr[k]]

\* variant: the merged record takes the place of the pair and is compared
\* with its next neighbour
RECURSIVE MergeRescan(_, _, _)
MergeRescan(bank, data, i) ==
    IF i > Len(data) THEN <<>>
    ELSE IF i + 1 <= Len(data) /\ should_merge_by(data[i], data[i + 1], merge_keys(data[i]))
         THEN MergeRescan(bank,
                          SubSeq(data, 1, i - 1)
                              \o <<merged_pair_by(bank, data[i], data[i + 1], merge_keys(data[i]))>>
                              \o SubSeq(data, i + 2, Len(data)), i)
         ELSE <<data[i]>> \o MergeRescan(bank, data, i + 1)
\* _merge_split_records, from index i on
RECURSIVE MergeFrom(_, _, _)
MergeFrom(bank, data, i) ==
    IF i > Len(data) THEN <<>>
    ELSE IF i + 1 <= Len(data) /\ should_merge_by(data[i], data[i + 1], merge_keys(data[i]))
         THEN <<merged_pair_by(bank, data[i], data[i + 1], merge_keys(data[i]))>>
                  \o MergeFrom(bank, data, i + 2)
         ELSE <<data[i]>> \o MergeFrom(bank, data, i + 1)

merge_split_records(bank, data) == MergeFrom(bank, data, 1)

\* the final filter of extract_data: records with a value under a money key
has_money_value(r) == \E k \in DOMAIN r : KeyHasAny(k, MONEY_COLS) /\ r[k] # <<>>
\* variant: no final filter
retain_all(recs) == recs
retain_money(recs) == SelectSeq(recs, has_money_value)


(***************************************************************************)
(* Input documents.  A document is read line by line; the lines a page may *)
(* hold are drawn from a pool of line shapes per layout, each a sequence   *)
(* of words (sorted by x0, as the line builder leaves them) that is placed *)
(* at one of the vertical positions Tops.                                  *)
(***************************************************************************)
\* the line shapes of the HDFC pool, by number
HDFC_LINES ==
    <<
      \* 1. Scenario A: a dated withdrawal line
      << [text |-> <<"0","1","/","0","4","/","2","3">>, x0 |-> 30, x1 |-> 66],
         [text |-> <<"R","T","G","S">>, x0 |-> 70, x1 |-> 95],
         [text |-> <<"R","E","F","9","9","8","8","7","7">>, x0 |-> 100, x1 |-> 150],
         [text |-> <<"A","C","M","E">>, x0 |-> 155, x1 |-> 180],
         [text |-> <<"C","O","R","P">>, x0 |-> 185, x1 |-> 210],
         [text |-> <<"5","0","0",".","0","0">>, x0 |-> 440, x1 |-> 480],
         [text |-> <<"1","5","0","0",".","0","0">>, x0 |-> 600, x1 |-> 650] >>,
      \* 2. Scenario B: narration text only
      << [text |-> <<"C","O","N","T","I","N","U","E","D">>, x0 |-> 70, x1 |-> 120],
         [text |-> <<"P","A","Y","M","E","N","T">>, x0 |-> 125, x1 |-> 165],
         [text |-> <<"D","E","T","A","I","L","S">>, x0 |-> 170, x1 |-> 210] >>,
      \* 3. Scenario C: disclosure boilerplate
      << [text |-> <<"R","e","g","i","s","t","e","r","e","d">>, x0 |-> 70, x1 |-> 120],
         [text |-> <<"O","f","f","i","c","e",":">>, x0 |-> 125, x1 |-> 160] >>,
      \* 4. a dated deposit line
      << [text |-> <<"0","2","/","0","4","/","2","3">>, x0 |-> 30, x1 |-> 66],
         [text |-> <<"U","P","I">>, x0 |-> 70, x1 |-> 90],
         [text |-> <<"2","0","0",".","0","0">>, x0 |-> 500, x1 |-> 550],
         [text |-> <<"1","7","0","0",".","0","0">>, x0 |-> 600, x1 |-> 650] >>,
      \* 5. a dated line that is also noise
      << [text |-> <<"0","3","/","0","4","/","2","3">>, x0 |-> 30, x1 |-> 66],
         [text |-> <<"G","S","T","I","N">>, x0 |-> 70, x1 |-> 100] >>,
      \* 6. the table header
      << [text |-> <<"D","a","t","e">>, x0 |-> 30, x1 |-> 55],
         [text |-> <<"N","a","r","r","a","t","i","o","n">>, x0 |-> 70, x1 |-> 120] >>,
      \* 7. a reference number alone
      << [text |-> <<"R","E","F","1","2","3">>, x0 |-> 270, x1 |-> 330] >>,
      \* 8. a page-number footer
      << [text |-> <<"P","a","g","e">>, x0 |-> 70, x1 |-> 95],
         [text |-> <<"N","o">>, x0 |-> 100, x1 |-> 115],
         [text |-> <<"1">>, x0 |-> 120, x1 |-> 125] >>
    >>

\* the line shapes of the Union Bank pool, by number
UNION_LINES ==
    <<
      \* 1. Scenario E, first half: date, remarks, reference
      << [text |-> <<"0","1","/","0","4","/","2","3">>, x0 |-> 30, x1 |-> 90],
         [text |-> <<"P","A","R","T">>, x0 |-> 105, x1 |-> 130],
         [text |-> <<"O","N","E">>, x0 |-> 135, x1 |-> 160],
         [text |-> <<"U","T","R","1","2","3","4">>, x0 |-> 290, x1 |-> 350] >>,
      \* 2. Scenario E, second half: the same with a deposit
      << [text |-> <<"0","1","/","0","4","/","2","3">>, x0 |-> 30, x1 |-> 90],
         [text |-> <<"P","A","R","T">>, x0 |-> 105, x1 |-> 130],
         [text |-> <<"T","W","O">>, x0 |-> 135, x1 |-> 160],
         [text |-> <<"U","T","R","1","2","3","4">>, x0 |-> 290, x1 |-> 350],
         [text |-> <<"2","0","0",".","0","0">>, x0 |-> 560, x1 |-> 620] >>,
      \* 3. Scenario D: amount and balance in one token
      << [text |-> <<"0","2","/","0","4","/","2","3">>, x0 |-> 30, x1 |-> 90],
         [text |-> <<"N","E","F","T">>, x0 |-> 105, x1 |-> 130],
         [text |-> <<"C","R">>, x0 |-> 135, x1 |-> 150],
         [text |-> <<"5",",","0","0","0",".","0","0","1","0","0",".","0","0">>, x0 |-> 650, x1 |-> 760] >>,
      \* 4. disclosure boilerplate that carries the word "Date"
      << [text |-> <<"C","u","s","t","o","m","e","r">>, x0 |-> 105, x1 |-> 150],
         [text |-> <<"S","e","r","v","i","c","e">>, x0 |-> 155, x1 |-> 195],
         [text |-> <<"D","a","t","e",":">>, x0 |-> 200, x1 |-> 230] >>,
      \* 5. a dated line that is also noise
      << [text |-> <<"0","3","/","0","4","/","2","3">>, x0 |-> 30, x1 |-> 90],
         [text |-> <<"G","S","T","I","N">>, x0 |-> 105, x1 |-> 140] >>,
      \* 6. the table header
      << [text |-> <<"D","a","t","e">>, x0 |-> 30, x1 |-> 60],
         [text |-> <<"R","e","m","a","r","k","s">>, x0 |-> 105, x1 |-> 150] >>,
      \* 7. a transaction id alone
      << [text |-> <<"T","7","7","7">>, x0 |-> 200, x1 |-> 240] >>,
      \* 8. a page-number footer
      << [text |-> <<"P","a","g","e">>, x0 |-> 105, x1 |-> 130],
         [text |-> <<"N","o">>, x0 |-> 135, x1 |-> 150],
         [text |-> <<"1">>, x0 |-> 155, x1 |-> 160] >>,
      \* 9. a dated withdrawal line
      << [text |-> <<"0","4","/","0","4","/","2","3">>, x0 |-> 30, x1 |-> 90],
         [text |-> <<"R","T","G","S">>, x0 |-> 105, x1 |-> 130],
         [text |-> <<"5","0",".","0","0">>, x0 |-> 460, x1 |-> 520],
         [text |-> <<"9","5","0",".","0","0">>, x0 |-> 650, x1 |-> 700] >>,
      \* 10. a UTR number alone
      << [text |-> <<"U","T","R","1","2","3","4">>, x0 |-> 290, x1 |-> 350] >>
    >>

LinePool(bank) == IF bank = "hdfc" THEN HDFC_LINES ELSE UNION_LINES

\* vertical positions: a row in the header region, a data row within the
\* continuation gap of it, a row in the footer region
Tops == {190, 215, 760}
PageHeights == {800}

\* bounds of the model
MaxPages == 2
MaxLines == 2

\* the words of line shape id placed at top
PlaceLine(bank, id, top) ==
    [n \in 1..Len(LinePool(bank)[id]) |->
        [text |-> LinePool(bank)[id][n].text, x0 |-> LinePool(bank)[id][n].x0,
         x1 |-> LinePool(bank)[id][n].x1, top |-> top]]


(***************************************************************************)
(* extract_data: the accumulator                                           *)
(***************************************************************************)
\* An open record is <<[row, lt]>>: its columns and its '_lt' entry.  Each
\* branch of the loop body gives the accumulator after the line:
\* current_record, records, the branch taken (verdict), the number of
\* _finalize_record calls made (finalized) and whether current_record was
\* assigned a new flat row (opened).
KeepAccumulator(current_record, records, v) ==
    [current_record |-> current_record, records |-> records, verdict |-> v,
     finalized |-> 0, opened |-> FALSE]

\* variant: no header rule, a header row is classified like any other line
header_skip_none(bank, top, text, is_start) == FALSE

\* `if top < header_y_max: if "Date" in text and not is_start: continue`
header_skip_cond(bank, top, text, is_start) ==
    top < header_y_max(bank) /\ Contains(text, S_Date) /\ ~is_start

\* variant: the noise test without the start override
noise_skip_any(is_noise, is_start) == is_noise

\* `if self.is_line_noise(text, top, page_height) and not is_start:`
noise_skip_cond(is_noise, is_start) == is_noise /\ ~is_start

\* variant: a noise line is dropped and the open record left as it is
noise_branch_keep(bank, cols, current_record, records) ==
    KeepAccumulator(current_record, records, "noise")

\* the noise branch: the open record, if any, is finalized and closed
noise_branch(bank, cols, current_record, records) ==
    IF current_record # None
    THEN [current_record |-> None,
          records |-> records \o finalize_record(bank, cols, current_record[1].row),
          verdict |-> "noise", finalized |-> 1, opened |-> FALSE]
    ELSE KeepAccumulator(current_record, records, "noise")

\* `if is_start:` the open record, if any, is finalized; a new one is opened
start_branch(bank, cols, current_record, records, row, top) ==
    [current_record |-> Some([row |-> row, lt |-> top]),
     records |-> IF current_record # None
                 THEN records \o finalize_record(bank, cols, current_record[1].row)
                 ELSE records,
     verdict |-> "start",
     finalized |-> IF current_record # None THEN 1 ELSE 0,
     opened |-> TRUE]

\* variant: the gap is taken as a distance, so a line far above the record's
\* last top is out of its reach
continuation_abs_gap(bank, current_record, top) ==
    /\ current_record # None
    /\ top - current_record[1].lt < continuation_gap(bank)
    /\ current_record[1].lt - top < continuation_gap(bank)

\* variant: any line that follows an open record is within its reach
continuation_any_gap(bank, current_record, top) == current_record # None
\* `if current_record and gap < continuation_gap:` within reach of the open record
continuation_cond(bank, current_record, top) ==
    /\ current_record # None
    /\ top - current_record[1].lt < continuation_gap(bank)

\* the continuation branch
continuation_branch(current_record, records, row, top) ==
    [current_record |->
         Some([row |-> merge_continuation(current_record[1].row, row), lt |-> top]),
     records |-> records, verdict |-> "continuation", finalized |-> 0,
     opened |-> FALSE]

\* `elif not current_record:` the orphan branch
orphan_branch(cols, current_record, records, row, top) ==
    IF orphan_has_ref(row, cols)
    THEN [current_record |-> Some([row |-> row, lt |-> top]), records |-> records,
          verdict |-> "orphan_start", finalized |-> 0, opened |-> TRUE]
    ELSE KeepAccumulator(current_record, records, "orphan_drop")

\* the body of `for line in lines`, with text the line's text and is_start
\* the outcome of is_transaction_start
line_branch(bank, cols, current_record, records, line, page_height, text, is_start) ==
    LET top == line[1].top
        row == flat_row(line, cols)
    IN  IF header_skip_cond(bank, top, text, is_start)
        THEN KeepAccumulator(current_record, records, "header_skip")
        ELSE IF noise_skip_cond(is_line_noise(bank, text, top, page_height), is_start)
        THEN noise_branch(bank, cols, current_record, records)
        ELSE IF ~any_row_data(line, cols)
        THEN KeepAccumulator(current_record, records, "no_columns")
        ELSE IF is_start
        THEN start_branch(bank, cols, current_record, records, row, top)
        ELSE IF continuation_cond(bank, current_record, top)
        THEN continuation_branch(current_record, records, row, top)
        ELSE IF current_record = None
        THEN orphan_branch(cols, current_record, records, row, top)
        ELSE KeepAccumulator(current_record, records, "gap_drop")

\* the body of `for line in lines`
process_line(bank, cols, current_record, records, line, page_height) ==
    line_branch(bank, cols, current_record, records, line, page_height,
                line_text(line),
                is_transaction_start(bank, line, line_text(line)))

\* `if current_record:` after the page loop
flush_last(bank, cols, current_record, records) ==
    IF current_record # None
    THEN records \o finalize_record(bank, cols, current_record[1].row)
    ELSE records

\* pdfplumber.open(pdf_path, password=pw) succeeds on a document of kind doc
CanOpen(doc, pw) == doc = "plain" \/ (doc = "locked" /\ pw = "right")

\* _calibrate_layout: the words above this limit are the header words
header_region_limit(bank) == header_y_max(bank) + 50

\* variant: calibration commits the window it centred on the header
calibrate_commit(cols) ==
    [n \in 1..Len(cols) |-> [cols[n] EXCEPT !.x0 = @ + 25, !.x1 = @ + 25]]

\* _calibrate_layout: the column ranges after calibration (it computes a
\* refined range and commits nothing)
calibrate_layout(cols) == cols

(***************************************************************************)
(* The engine as a state machine                                           *)
(***************************************************************************)
VARIABLES
    bank,            \* bank_name given to the constructor
    columns,         \* self.columns
    pc,              \* "new", "failed", "ready", "prompt", "pages", "done"
    raised,          \* the exception that reached the caller, "none" if none
    handle,          \* the document handle: "none", "open", "closed"
    pending_doc,     \* kind of the document whose first open failed, while
                     \* the password prompt is up ("none" otherwise)
    page,            \* number of the page being read (0: none yet)
    page_top,        \* top of the last line read on this page (-3: none yet)
    page_height,     \* float(page.height) of the pages
    seen,            \* the lines read so far: [id, top, page]
    current_record,  \* the open record, None if none
    records,         \* the records list of extract_data
    verdict,         \* branch taken by the last line read
    collected,       \* records as they were before the merge pass
    merged,          \* records after the merge pass, before the final filter
    result,          \* the list returned by extract_data
    open_id,         \* number of the open record (0: none), by order of opening
    n_opened,        \* number of records opened so far
    finalized_ids,   \* the numbers of the records passed to _finalize_record
    logged,          \* the handler of extract_data printed "Extraction failed"
    document,        \* the document read: the line shapes its pages hold,
                     \* its number of lines at most and their positions
    call,            \* a layout function called on its own, and its argument
    returned,        \* the values it returned, in order
    workers          \* the worker threads running _run_extraction and the
                     \* engines they use (<<>>: no thread pool)

vars == <<bank, columns, pc, raised, handle, pending_doc, page, page_top,
          page_height, seen, current_record, records, verdict, collected, merged,
          result, open_id, n_opened, finalized_ids, logged, document, call,
          returned, workers>>

engine_vars == <<bank, columns, pc, raised, handle, pending_doc, page, page_top,
                 page_height, seen, current_record, records, verdict, collected,
                 merged, result, open_id, n_opened, finalized_ids, logged,
                 document>>

BankNames == Banks \cup {"icici"}
Docs == {"plain", "locked", "corrupt"}
Passwords == {"none", "right", "wrong"}

\* the engine before its constructor runs
EngineInit ==
    /\ columns = <<>>
    /\ pc = "new"
    /\ raised = "none"
    /\ handle = "none"
    /\ pending_doc = "none"
    /\ page = 0
    /\ page_top = -3
    /\ page_height \in PageHeights
    /\ seen = <<>>
    /\ current_record = None
    /\ records = <<>>
    /\ verdict = "none"
    /\ collected = <<>>
    /\ merged = <<>>
    /\ result = <<>>
    /\ open_id = 0
    /\ n_opened = 0
    /\ finalized_ids = <<>>
    /\ logged = FALSE

\* a document of at most MaxLines lines of any shape of the bank's pool, at
\* any of the vertical positions
FullDocument == [shapes |-> 1..Len(LinePool(bank)), lines |-> MaxLines, tops |-> Tops]

Init ==
    /\ bank \in BankNames
    /\ EngineInit
    /\ document = FullDocument
    /\ call = [fn |-> "none"]
    /\ returned = <<>>
    /\ workers = <<>>

\* variant: any bank name is taken
ConstructAny ==
    /\ pc = "new"
    /\ columns' = LAYOUT_COLUMNS(bank)
    /\ pc' = "ready"
    /\ UNCHANGED <<bank, raised, handle, pending_doc, page, page_top, page_height,
                   seen, current_record, records, verdict, collected, merged,
                   result, open_id, n_opened, finalized_ids, logged, document,
                   call, returned, workers>>

\* GenericBankEngine.__init__
Construct ==
    /\ pc = "new"
    /\ IF bank \in Banks
       THEN /\ columns' = LAYOUT_COLUMNS(bank)
            /\ pc' = "ready"
            /\ raised' = raised
       ELSE /\ columns' = columns
            /\ pc' = "failed"
            /\ raised' = "ValueError"
    /\ UNCHANGED <<bank, handle, pending_doc, page, page_top, page_height, seen,
                   current_record, records, verdict, collected, merged, result,
                   open_id, n_opened, finalized_ids, logged, document, call,
                   returned, workers>>

\* variant: an exception leaves extract_data
ExceptEscapes ==
    /\ raised' = "Exception"
    /\ pc' = "done"
    /\ UNCHANGED <<logged, result>>

\* `except Exception as e:` of extract_data: the cause is printed and the
\* empty list returned
ExceptHandler ==
    /\ logged' = TRUE
    /\ result' = <<>>
    /\ pc' = "done"
    /\ raised' = raised

\* variant: the document is left open
WithLeak == handle' = handle

\* `with pdf:` is left, by its end or by an exception: the document is closed
WithExit == handle' = "closed"

\* an exception raised inside `with pdf:`
Fault(v) == WithExit /\ ExceptHandler /\ verdict' = v

\* the document is open: `with pdf:` is entered and the first page
\* calibrated; an exception of _calibrate_layout (page.extract_words() fails,
\* a header token has no 'top') leaves the block
Opened(calibrated) ==
    /\ columns' = calibrate_layout(columns)
    /\ pending_doc' = "none"
    /\ IF calibrated
       THEN /\ handle' = "open"
            /\ pc' = "pages"
            /\ UNCHANGED <<raised, result, logged, verdict>>
       ELSE Fault("calibration_fault")

\* extract_data, first pdfplumber.open: with the password given by the caller
OpenDocument ==
    /\ pc = "ready"
    /\ \E doc \in Docs, password \in Passwords, calibrated \in BOOLEAN :
        IF CanOpen(doc, password)
        THEN Opened(calibrated)
        ELSE /\ pc' = "prompt"
             /\ pending_doc' = doc
             /\ UNCHANGED <<handle, columns, raised, result, logged, verdict>>
    /\ UNCHANGED <<bank, page, page_top, page_height, seen, current_record,
                   records, collected, merged, open_id, n_opened, finalized_ids,
                   document, call, returned, workers>>

\* extract_data, `except Exception:` of the first open: get_password prompts
\* and pdfplumber.open is called again with what was typed.  If that fails
\* too the exception is caught by the outer handler, which returns [].
RetryOpen ==
    /\ pc = "prompt"
    /\ \E typed \in Passwords \ {"none"}, calibrated \in BOOLEAN :
        IF CanOpen(pending_doc, typed)
        THEN Opened(calibrated)
        ELSE /\ ExceptHandler
             /\ pending_doc' = "none"
             /\ UNCHANGED <<handle, columns, verdict>>
    /\ UNCHANGED <<bank, page, page_top, page_height, seen, current_record,
                   records, collected, merged, open_id, n_opened, finalized_ids,
                   document, call, returned, workers>>

\* `for page in pdf.pages`: the next page is taken up and its words grouped
\* into lines; an exception there (page.extract_words() fails, a token has
\* no 'top' or no 'x0') leaves the loop
NextPage ==
    /\ pc = "pages"
    /\ page < MaxPages
    /\ \E readable \in BOOLEAN :
        IF readable
        THEN /\ page' = page + 1
             /\ page_top' = -3
             /\ UNCHANGED <<pc, raised, handle, result, logged, verdict>>
        ELSE /\ Fault("page_fault")
             /\ UNCHANGED <<page, page_top>>
    /\ UNCHANGED <<bank, columns, pending_doc, page_height, seen, current_record,
                   records, collected, merged, open_id, n_opened, finalized_ids,
                   document, call, returned, workers>>

\* `for line in lines`: the next line of the page is processed.  Lines of a
\* page come in ascending order of top, at least 3 apart (the line builder).
\* A line is whole when each of its words has its coordinates; when its
\* first word has no 'x1' the column assignment raises KeyError, if the line
\* gets there.  (On the first page a one-word line of the header region is
\* not such a line: _calibrate_layout reads the 'x1' of its last word.)
ReadLine ==
    /\ pc = "pages"
    /\ page >= 1
    /\ Len(seen) < document.lines
    /\ \E id \in document.shapes, top \in document.tops, whole \in BOOLEAN :
        /\ top >= page_top + 3
        /\ whole \/ ~(page = 1 /\ top < header_region_limit(bank)
                            /\ Len(LinePool(bank)[id]) = 1)
        /\ \E r \in {process_line(bank, columns, current_record, records,
                                  PlaceLine(bank, id, top), page_height)} :
            IF whole \/ r.verdict \in {"header_skip", "noise"}
            THEN /\ current_record' = r.current_record
                 /\ records' = r.records
                 /\ verdict' = r.verdict
                 /\ finalized_ids' = IF r.finalized = 1
                                     THEN Append(finalized_ids, open_id)
                                     ELSE finalized_ids
                 /\ n_opened' = IF r.opened THEN n_opened + 1 ELSE n_opened
                 /\ open_id' = IF r.opened THEN n_opened + 1
                               ELSE IF r.current_record = None THEN 0 ELSE open_id
                 /\ UNCHANGED <<pc, raised, handle, result, logged>>
            ELSE /\ Fault("line_fault")
                 /\ UNCHANGED <<current_record, records, finalized_ids, n_opened,
                                open_id>>
        /\ seen' = Append(seen, [id |-> id, top |-> top, page |-> page])
        /\ page_top' = top
    /\ UNCHANGED <<bank, columns, pending_doc, page, page_height, collected,
                   merged, document, call, returned, workers>>

\* extract_data after the page loop: the last record is finalized, the
\* document is closed, the merge pass and the final filter run and the list
\* is returned
EndOfDocument ==
    /\ pc = "pages"
    /\ \E all \in {flush_last(bank, columns, current_record, records)} :
        \E mrg \in {merge_split_records(bank, all)} :
            /\ collected' = all
            /\ merged' = mrg
            /\ records' = retain_money(mrg)
            /\ result' = retain_money(mrg)
    /\ finalized_ids' = IF current_record # None
                        THEN Append(finalized_ids, open_id) ELSE finalized_ids
    /\ pc' = "done"
    /\ WithExit
    /\ verdict' = "end"
    /\ UNCHANGED <<bank, columns, raised, pending_doc, page, page_top, page_height,
                   seen, current_record, open_id, n_opened, logged, document,
                   call, returned, workers>>

Next ==
    \/ Construct
    \/ OpenDocument
    \/ RetryOpen
    \/ NextPage
    \/ ReadLine
    \/ EndOfDocument

Spec == Init /\ [][Next]_vars

\* longer documents of fewer shapes: a line with money, a line that closes
\* the open record, a line that does neither; three lines of a page can lie
\* within the continuation gap of one another
LongShapes == IF bank = "hdfc" THEN {2, 3, 4} ELSE {2, 4, 9}

InitLong ==
    /\ bank \in Banks
    /\ EngineInit
    /\ document = [shapes |-> LongShapes, lines |-> MaxLines + 1,
                   tops |-> {190, 215, 240}]
    /\ call = [fn |-> "none"]
    /\ returned = <<>>
    /\ workers = <<>>

SpecLong == InitLong /\ [][Next]_vars

\* the shape in the pool of the n-th line read, the words of the last line read
SeenShape(n) == LinePool(bank)[seen[n].id]
LastLine == PlaceLine(bank, seen[Len(seen)].id, seen[Len(seen)].top)


(***************************************************************************)
(* The layout functions called on their own                                *)
(***************************************************************************)
\* fragments of which the texts given to clean_data are made
CleanFragments ==
    { <<"g","s","t">>, <<"g","s","t","i","n">>, <<"i","n">>, <<"A","A","A"," ">>, <<"C","C","C","C","C","C","C","C">>, <<"G","e","n","e","r","a","t","e","d"," ","B","y">>, <<"1",",","0","0","0",".","0","0"," ">>, <<"-","5","0",".","0","0">> }

\* bound: number of fragments in a text
MaxFrags == 3

\* the texts of at most n fragments
RECURSIVE TextsUpTo(_)
TextsUpTo(n) ==
    IF n = 0 THEN {<<>>}
    ELSE TextsUpTo(n - 1) \cup {t \o f : t \in TextsUpTo(n - 1), f \in CleanFragments}


\* a call layout.clean_data(cat, val) of the engine's layout
InitClean ==
    /\ bank \in Banks
    /\ EngineInit
    /\ document = FullDocument
    /\ call \in {[fn |-> "clean_data", cat |-> c, val |-> v] :
                    c \in ColumnNames(LAYOUT_COLUMNS(bank)), v \in TextsUpTo(MaxFrags)}
    /\ returned = <<>>
    /\ workers = <<>>

\* clean_data is applied to the text, then to what it returned
ApplyCleanData ==
    /\ call.fn = "clean_data"
    /\ Len(returned) < 2
    /\ returned' = Append(returned,
                          clean_data(bank, call.cat,
                                     IF returned = <<>> THEN call.val
                                     ELSE returned[Len(returned)]))
    /\ UNCHANGED <<engine_vars, call, workers>>

SpecClean == InitClean /\ [][ApplyCleanData]_vars

\* the values of a Union Bank raw record given to post_process_record
PostRemarks == { <<"N","E","F","T"," ","C","R">>, <<"C","H","A","R","G","E","S">>, <<"T","R","A","N","S","F","E","R">>, <<"S","e","n","d","e","r"," ","N","o",":"," ","A","B","1","2">> }
PostAmounts == { <<"5",",","0","0","0",".","0","0">>, <<"1","0","0",".","0","0">> }
PostBalances ==
    {<<>>} \cup PostAmounts \cup {a \o b : a \in PostAmounts, b \in PostAmounts}
           \cup {a \o <<"-">> \o b : a \in PostAmounts, b \in PostAmounts}
PostTranIds == { <<>>, <<"T","7","7","7">> }

PostRecord(remarks, tran_id, withdrawals, deposits, balance) ==
    [k \in ColumnNames(UNION_COLUMNS) |->
        CASE k = "Date" -> <<"0","1","/","0","4","/","2","3">>
          [] k = "Remarks" -> remarks
          [] k = "Tran Id-1" -> tran_id
          [] k = "Withdrawals" -> withdrawals
          [] k = "Deposits" -> deposits
          [] k = "Balance" -> balance
          [] OTHER -> <<>>]

\* a call layout.post_process_record(record) of the Union Bank layout
InitPost ==
    /\ bank = "union_bank"
    /\ EngineInit
    /\ document = FullDocument
    /\ call \in {[fn |-> "post_process_record",
                  record |-> PostRecord(r, t, w, d, b)] :
                    r \in PostRemarks, t \in PostTranIds,
                    w \in {<<>>} \cup PostAmounts, d \in {<<>>} \cup PostAmounts,
                    b \in PostBalances}
    /\ returned = <<>>
    /\ workers = <<>>

ApplyPostProcess ==
    /\ call.fn = "post_process_record"
    /\ returned = <<>>
    /\ returned' = <<post_process_record(bank, call.record)>>
    /\ UNCHANGED <<engine_vars, call, workers>>

SpecPost == InitPost /\ [][ApplyPostProcess]_vars


(***************************************************************************)
(* The line builder of extract_data called on the words of a document      *)
(***************************************************************************)
\* words.sort(key=lambda w: w['top']): list.sort is stable
sort_by_top(words) ==
    [r \in 1..Len(words) |->
        words[CHOOSE i \in 1..Len(words) :
                 r = 1 + Cardinality({j \in 1..Len(words) :
                                         \/ words[j].top < words[i].top
                                         \/ words[j].top = words[i].top /\ j < i})]]

\* variant: a closed line keeps the order in which its words were collected
keep_word_order(current_line) == current_line
\* current_line.sort(key=lambda x: x['x0'])
sort_by_x0(current_line) ==
    [r \in 1..Len(current_line) |->
        current_line[CHOOSE i \in 1..Len(current_line) :
                 r = 1 + Cardinality({j \in 1..Len(current_line) :
                                         \/ current_line[j].x0 < current_line[i].x0
                                         \/ current_line[j].x0 = current_line[i].x0 /\ j < i})]]

\* the grouping loop over words[i..], words being sorted by top: a word joins
\* current_line when it is less than 3 from the word collected last
RECURSIVE group_words(_, _, _, _)
group_words(words, i, current_line, lines) ==
    IF i > Len(words) THEN Append(lines, sort_by_x0(current_line))
    ELSE LET d == words[i].top - current_line[Len(current_line)].top
         IN  IF (IF d < 0 THEN -d ELSE d) < 3
             THEN group_words(words, i + 1, Append(current_line, words[i]), lines)
             ELSE group_words(words, i + 1, <<words[i]>>,
                              Append(lines, sort_by_x0(current_line)))

\* the lines of a page, from the words page.extract_words() returned
page_lines(extracted) ==
    IF extracted = <<>> THEN <<>>
    ELSE CHOOSE ls \in {group_words(words, 2, <<words[1]>>, <<>>) :
                           words \in {sort_by_top(extracted)}} : TRUE

\* bound: number of words in a document
MaxWords == 3

\* the words of page p placed at the given positions; the text tells them apart
PageWords(p, at) ==
    [i \in 1..Len(at) |->
        [text |-> <<"p", <<"1","2">>[p], "w", <<"1","2","3","4","5">>[i]>>,
         x0 |-> at[i].x0, x1 |-> at[i].x0 + 1, top |-> at[i].top]]

\* a two-page document: what page.extract_words() returns for each page
InitLines ==
    /\ bank = "hdfc"
    /\ EngineInit
    /\ document = FullDocument
    /\ call \in UNION {{[fn |-> "extract_words",
                         pages |-> <<PageWords(1, f), PageWords(2, g)>>] :
                          f \in [1..nm[1] -> [x0 : {1, 2}, top : {10, 12, 13, 16}]],
                          g \in [1..nm[2] -> [x0 : {1, 2}, top : {10, 12, 13, 16}]]} :
                        nm \in {c \in (0..MaxWords) \X (0..MaxWords) : c[1] + c[2] <= MaxWords}}
    /\ returned = <<>>
    /\ workers = <<>>

\* for page in pdf.pages: the lines of the next page are built
BuildPageLines ==
    /\ call.fn = "extract_words"
    /\ Len(returned) < Len(call.pages)
    /\ returned' = Append(returned, page_lines(call.pages[Len(returned) + 1]))
    /\ UNCHANGED <<engine_vars, call, workers>>

SpecLines == InitLines /\ [][BuildPageLines]_vars


(***************************************************************************)
(* The column assignment of extract_data called on a word and a column map *)
(***************************************************************************)
\* bound: number of columns in a column map
MaxCols == 3

\* a word and the engine's column map, both on a grid of x positions; the
\* columns are declared in the order of the sequence and may overlap
InitColumns ==
    /\ bank = "hdfc"
    /\ EngineInit
    /\ document = FullDocument
    /\ call \in UNION {{[fn |-> "assign_columns",
                         line |-> <<[text |-> <<"w">>, x0 |-> w[1], x1 |-> w[2], top |-> 300]>>,
                         cols |-> [n \in 1..k |->
                                     [name |-> <<"c1", "c2", "c3", "c4">>[n],
                                      x0 |-> f[n][1], x1 |-> f[n][2]]]] :
                          w \in {c \in (0..3) \X (0..3) : c[1] <= c[2]},
                          f \in [1..k -> {c \in (0..3) \X (0..3) : c[1] < c[2] \/ c = <<0, 0>>}]} :
                        k \in 1..MaxCols}
    /\ returned = <<>>
    /\ workers = <<>>

\* row_data of the line is filled
AssignColumns ==
    /\ call.fn = "assign_columns"
    /\ returned = <<>>
    /\ returned' = <<row_data(call.line, call.cols)>>
    /\ UNCHANGED <<engine_vars, call, workers>>

SpecColumns == InitColumns /\ [][AssignColumns]_vars


(***************************************************************************)
(* _merge_split_records called on a list of records                        *)
(***************************************************************************)
\* bound: number of records in the list
MaxRecords == 3

\* the i-th record of a list, under the raw column keys of the bank's layout:
\* its remarks tell the records apart, money is "w" (a withdrawal), "d" (a
\* deposit) or "none"; every record has a balance
MergeRecord(i, date, ref, money) ==
    [k \in ColumnNames(LAYOUT_COLUMNS(bank)) |->
        CASE k = "Date" -> date
          [] k \in {"Narration", "Remarks"} -> <<"P", <<"1","2","3","4","5">>[i]>>
          [] k \in {"Chq./Ref.No.", "Tran Id-1"} -> ref
          [] k \in {"WithdrawalAmt", "Withdrawals"} /\ money = "w" -> <<"5","0",".","0","0">>
          [] k \in {"DepositAmt", "Deposits"} /\ money = "d" -> <<"2","0","0",".","0","0">>
          [] k \in {"ClosingBalance", "Balance"} -> <<"1","7","0","0",".","0","0">>
          [] OTHER -> <<>>]

\* a call engine._merge_split_records(data)
InitMerge ==
    /\ bank \in Banks
    /\ EngineInit
    /\ document = FullDocument
    /\ call \in UNION {{[fn |-> "_merge_split_records",
                         data |-> [i \in 1..n |-> MergeRecord(i, f[i][1], f[i][2], f[i][3])]] :
                          f \in [1..n -> {<<"0","1","/","0","4","/","2","3">>,
                                          <<"0","2","/","0","4","/","2","3">>}
                                         \X {<<>>, <<"U","1">>}
                                         \X {"none", "w", "d"}]} :
                        n \in 0..MaxRecords}
    /\ returned = <<>>
    /\ workers = <<>>

ApplyMerge ==
    /\ call.fn = "_merge_split_records"
    /\ returned = <<>>
    /\ returned' = <<merge_split_records(bank, call.data)>>
    /\ UNCHANGED <<engine_vars, call, workers>>

SpecMerge == InitMerge /\ [][ApplyMerge]_vars


(***************************************************************************)
(* app/main.py: two extractions in the worker threads of the executor      *)
(***************************************************************************)
\* variant: one engine and one accumulator serve every thread
shared_engine(w) == 1
\* engine = GenericBankEngine(bank_key): thread w builds the engine it uses,
\* and its call of extract_data has its own current_record and records
own_engine(w) == w

\* two jobs are submitted to the executor; a job is the lines of its
\* document, as <<shape, top>> pairs in reading order
InitWorkers ==
    /\ bank \in Banks
    /\ EngineInit
    /\ document = [shapes |-> LongShapes, lines |-> MaxLines, tops |-> {190, 215}]
    /\ call \in {[fn |-> "_run_extraction", jobs |-> <<j1, j2>>] :
                    j1, j2 \in UNION {{f \in [1..n -> document.shapes \X document.tops] :
                                          \A i \in 2..n : f[i - 1][2] < f[i][2]} :
                                      n \in 0..document.lines}}
    /\ returned = <<>>
    /\ workers = [thread |-> [w \in 1..2 |-> [pc |-> "queued", read |-> 0, result |-> <<>>]],
                  engine |-> [e \in 1..2 |-> [columns |-> <<>>, current_record |-> None,
                                              records |-> <<>>]],
                  interleaved |-> FALSE]

\* _run_extraction starts in thread w: the engine is built, extract_data
\* opens the document and sets current_record = None, records = []
RunExtraction(w) ==
    /\ call.fn = "_run_extraction"
    /\ workers.thread[w].pc = "queued"
    /\ workers' = [thread |-> [workers.thread EXCEPT ![w].pc = "running"],
                   engine |-> [workers.engine EXCEPT ![own_engine(w)] =
                                  [columns |-> LAYOUT_COLUMNS(bank),
                                   current_record |-> None, records |-> <<>>]],
                   interleaved |-> workers.interleaved]
    /\ UNCHANGED <<engine_vars, call, returned>>

\* thread w processes the next line of its document; the threads interleave
\* when the other thread is then in the middle of its own document
WorkerLine(w) ==
    /\ call.fn = "_run_extraction"
    /\ workers.thread[w].pc = "running"
    /\ workers.thread[w].read < Len(call.jobs[w])
    /\ \E e \in {workers.engine[own_engine(w)]} :
        \E r \in {process_line(bank, e.columns, e.current_record, e.records,
                               PlaceLine(bank, call.jobs[w][workers.thread[w].read + 1][1],
                                         call.jobs[w][workers.thread[w].read + 1][2]),
                               page_height)} :
            workers' = [thread |-> [workers.thread EXCEPT ![w].read = @ + 1],
                        engine |-> [workers.engine EXCEPT ![own_engine(w)] =
                                       [columns |-> e.columns,
                                        current_record |-> r.current_record,
                                        records |-> r.records]],
                        interleaved |->
                            \/ workers.interleaved
                            \/ /\ workers.thread[3 - w].pc = "running"
                               /\ workers.thread[3 - w].read >= 1]
    /\ UNCHANGED <<engine_vars, call, returned>>

\* thread w is past its last line: the last record is flushed, the merge
\* pass and the final filter run, and extract_data returns
WorkerReturn(w) ==
    /\ call.fn = "_run_extraction"
    /\ workers.thread[w].pc = "running"
    /\ workers.thread[w].read = Len(call.jobs[w])
    /\ \E e \in {workers.engine[own_engine(w)]} :
        \E all \in {flush_last(bank, e.columns, e.current_record, e.records)} :
            workers' = [thread |-> [workers.thread EXCEPT
                                       ![w].pc = "done",
                                       ![w].result = retain_money(merge_split_records(bank, all))],
                        engine |-> workers.engine,
                        interleaved |-> workers.interleaved]
    /\ UNCHANGED <<engine_vars, call, returned>>

NextWorkers == \E w \in 1..2 : RunExtraction(w) \/ WorkerLine(w) \/ WorkerReturn(w)

SpecWorkers == InitWorkers /\ [][NextWorkers]_vars


(***************************************************************************)
(* is_transaction_start called on a line                                   *)
(***************************************************************************)
\* first words of a line: two clock times, a date both patterns accept, a date
\* only the HDFC pattern accepts, a date inside a longer word, two keywords
StartFirstWords ==
    { <<"1","0",":","3","0">>, <<"9",":","0","5",":","0","0">>,
      <<"0","1","/","0","2","/","2","4">>, <<"1","/","2","/","2","4">>,
      <<"x","0","1","/","0","2","/","2","4">>,
      <<"N","E","F","T">>, <<"I","M","P","S">> }

\* the words that may follow the first one
StartRestWords ==
    { <<"0","1","/","0","2","/","2","4">>, <<"I","M","P","S">>, <<"x">> }

\* x0 of the first word, on both sides of the two thresholds
StartX0 == {100, 119, 120, 149, 150}

\* a line of one to three words at top 300
InitStart ==
    /\ bank \in Banks
    /\ EngineInit
    /\ document = FullDocument
    /\ call \in UNION {{[fn |-> "is_transaction_start",
                         line |-> [n \in 1..(1 + k) |->
                                     [text |-> IF n = 1 THEN f ELSE r[n - 1],
                                      x0 |-> IF n = 1 THEN x ELSE x + 60 * (n - 1),
                                      x1 |-> IF n = 1 THEN x + 50 ELSE x + 60 * (n - 1) + 50,
                                      top |-> 300]]] :
                          f \in StartFirstWords, x \in StartX0,
                          r \in [1..k -> StartRestWords]} :
                        k \in 0..2}
    /\ returned = <<>>
    /\ workers = <<>>

\* the engine decides whether the line starts a transaction
IsTransactionStart ==
    /\ call.fn = "is_transaction_start"
    /\ returned = <<>>
    /\ returned' = <<is_transaction_start(bank, call.line, line_text(call.line))>>
    /\ UNCHANGED <<engine_vars, call, workers>>

SpecStart == InitStart /\ [][IsTransactionStart]_vars


(***************************************************************************)
(* Properties                                                              *)
(***************************************************************************)
\* texts the properties mention
T_01_04_23 == <<"0","1","/","0","4","/","2","3">>
T_500_00 == <<"5","0","0",".","0","0">>
T_1500_00 == <<"1","5","0","0",".","0","0">>
T_SCENARIO_A == <<"R","T","G","S"," ","R","E","F","9","9","8","8","7","7"," ","A","C","M","E"," ","C","O","R","P">>
T_SCENARIO_B == <<"R","T","G","S"," ","R","E","F","9","9","8","8","7","7"," ","A","C","M","E"," ","C","O","R","P"," ","C","O","N","T","I","N","U","E","D"," ","P","A","Y","M","E","N","T"," ","D","E","T","A","I","L","S">>
T_NEFT_CR == <<"N","E","F","T"," ","C","R">>

\* a step that reads a line and processes it to the end (no exception), and
\* the line it reads
LineRead == Len(seen') = Len(seen) + 1 /\ verdict' # "line_fault"
NewLine == PlaceLine(bank, seen'[Len(seen')].id, seen'[Len(seen')].top)
IsNoise(line) == is_line_noise(bank, line_text(line), line[1].top, page_height)
IsStart(line) == is_transaction_start(bank, line, line_text(line))
\* the header rule skips the line before it is classified
IsHeaderRow(line) ==
    line[1].top < header_y_max(bank) /\ Contains(line_text(line), S_Date)
FinalizedSet == {finalized_ids[i] : i \in 1..Len(finalized_ids)}

\* C1 (as claimed): on an HDFC document whose only line is Scenario A's,
\* extract_data returns exactly one record, with date 01/04/23, withdrawal
\* 500.00, deposit empty, balance 1500.00 and narration
\* "RTGS REF998877 ACME CORP".
C1_ScenarioA ==
    (pc = "done" /\ verdict = "end" /\ bank = "hdfc"
        /\ Len(seen) = 1 /\ SeenShape(1) = HDFC_LINES[1])
    => /\ Len(result) = 1
       /\ Get(result[1], "date") = T_01_04_23
       /\ Get(result[1], "Withdraw") = T_500_00
       /\ Get(result[1], "Deposit") = <<>>
       /\ Get(result[1], "ClosingBalance") = T_1500_00
       /\ Get(result[1], "Narration") = T_SCENARIO_A

\* the keys of a finalized record that hold a reference, a monetary value,
\* the narration
C2_RefKeys == {"Chq./Ref.No.", "Tran Id-1", "UTR Number"}
C2_MoneyKeys == {"Withdraw", "Withdrawal", "Deposit"}
C2_TextKeys == {"Narration", "Remarks"}
C2_HasMoney(r) == \E k \in DOMAIN r \cap C2_MoneyKeys : r[k] # <<>>
C2_Mergeable(a, b) ==
    /\ "date" \in DOMAIN a /\ "date" \in DOMAIN b /\ a["date"] = b["date"]
    /\ \E k \in DOMAIN a \cap DOMAIN b \cap C2_RefKeys : a[k] = b[k] /\ a[k] # <<>>
    /\ C2_HasMoney(a) # C2_HasMoney(b)
\* the one record that replaces a mergeable pair
C2_Merged(a, b) ==
    [k \in DOMAIN a |->
        IF k \in C2_TextKeys
        THEN clean_data(bank, k, strip(a[k] \o <<" ">> \o Get(b, k)))
        ELSE IF k \in C2_MoneyKeys /\ Get(b, k) # <<>> THEN b[k]
        ELSE a[k]]

\* C2 (as claimed): in an extract_data run, two adjacent finalized records
\* with the same date, the same non-empty reference value and a monetary
\* value on exactly one side are replaced by one record: the texts joined,
\* the monetary values of the side that has them.
C2_MergerMerges ==
    (pc = "done" /\ verdict = "end")
    => \A i \in 1..(Len(collected) - 1) :
          C2_Mergeable(collected[i], collected[i + 1])
          => /\ Len(merged) < Len(collected)
             /\ \E j \in 1..Len(merged) :
                   merged[j] = C2_Merged(collected[i], collected[i + 1])

\* C3 (as claimed): Union Bank post_process_record, on a record with empty
\* withdrawal and deposit, remarks containing "NEFT CR" and a balance that is
\* two amounts concatenated, makes the first amount the deposit and the
\* remainder the balance.
C3_BalanceBleed ==
    \A a \in PostAmounts, b \in PostAmounts :
        (/\ call.fn = "post_process_record"
         /\ returned # <<>>
         /\ call.record["Withdrawals"] = <<>>
         /\ call.record["Deposits"] = <<>>
         /\ Contains(call.record["Remarks"], T_NEFT_CR)
         /\ call.record["Balance"] = a \o b)
        => /\ returned[1]["Deposits"] = a
           /\ returned[1]["Balance"] = b

\* C4 (as claimed): clean_data is idempotent, for each layout, every column
\* and every text: cleaning the cleaned text returns it unchanged.
C4_CleanIdempotent ==
    (call.fn = "clean_data" /\ Len(returned) = 2) => returned[2] = returned[1]

\* C5: every record of the list returned by extract_data has a non-empty
\* value under a key containing "Amt", "Withdrawal" or "Deposit".
C5_ReturnedHaveMoney ==
    \A i \in 1..Len(result) :
        \E k \in DOMAIN result[i] :
            /\ \/ Contains(KeyText(k), <<"A","m","t">>)
               \/ Contains(KeyText(k), <<"W","i","t","h","d","r","a","w","a","l">>)
               \/ Contains(KeyText(k), <<"D","e","p","o","s","i","t">>)
            /\ result[i][k] # <<>>

\* C5, witness: a run returned a record and dropped another
C5_Witness ==
    pc = "done" /\ Len(result) >= 1 /\ Len(result) < Len(merged)

\* C6: a line that is_line_noise and is_transaction_start both accept is
\* processed as a start: the open record, if any, is finalized and a new
\* record is opened from the line; it is not dropped as noise.
C6_StartOverride ==
    [][ (LineRead /\ IsNoise(NewLine) /\ IsStart(NewLine))
        => /\ verdict' = "start"
           /\ current_record' =
                  Some([row |-> flat_row(NewLine, columns), lt |-> NewLine[1].top])
           /\ n_opened' = n_opened + 1
           /\ IF current_record # None
              THEN /\ records' = records
                          \o finalize_record(bank, columns, current_record[1].row)
                   /\ finalized_ids' = Append(finalized_ids, open_id)
              ELSE records' = records /\ finalized_ids' = finalized_ids ]_vars

\* C6, witness: a line that is both noise and a start was read with a record
\* open, closed that record and opened its own
C6_Witness ==
    /\ pc = "pages" /\ Len(seen) >= 2 /\ verdict = "start"
    /\ IsNoise(LastLine) /\ IsStart(LastLine)
    /\ Len(finalized_ids) >= 1 /\ current_record # None

\* C7 (as claimed): Scenario A's line followed, within the continuation gap,
\* by the line "CONTINUED PAYMENT DETAILS" gives one record, whose narration
\* is "RTGS REF998877 ACME CORP CONTINUED PAYMENT DETAILS".
C7_ScenarioB ==
    (pc = "done" /\ verdict = "end" /\ bank = "hdfc" /\ Len(seen) = 2
        /\ SeenShape(1) = HDFC_LINES[1] /\ SeenShape(2) = HDFC_LINES[2]
        /\ seen[1].page = seen[2].page
        /\ seen[2].top - seen[1].top < continuation_gap(bank))
    => /\ Len(collected) = 1
       /\ Get(collected[1], "Narration") = T_SCENARIO_B

\* C8 (as claimed): with a record open, a noise line that is not a start
\* closes the open record and the output gains exactly one record.
C8_NoiseGainsOne ==
    [][ (LineRead /\ current_record # None /\ IsNoise(NewLine) /\ ~IsStart(NewLine))
        => /\ current_record' = None
           /\ Len(records') = Len(records) + 1 ]_vars

\* the cleaned record has a narration/remarks, a reference or a monetary value
C8_Substantive(row) ==
    \E c \in DOMAIN row :
        /\ \/ c \in {"Narration", "Remarks"}
           \/ KeyHasAny(c, FINALIZE_REF_KEYS)
           \/ KeyHasAny(c, FINALIZE_MONEY_KEYS)
        /\ clean_data(bank, c, row[c]) # <<>>

\* C8 (amended): with a record open, a noise line that is not a start and is
\* not skipped by the header rule finalizes the open record as it was (none
\* of the noise line's text is merged) and leaves no record open; the output
\* gains one record if the cleaned record has a narration/remarks, a
\* reference or a monetary value, and none otherwise.
C8_NoiseFinalizes ==
    [][ (LineRead /\ current_record # None /\ IsNoise(NewLine) /\ ~IsStart(NewLine)
            /\ ~IsHeaderRow(NewLine))
        => /\ verdict' = "noise"
           /\ current_record' = None
           /\ records' = records \o finalize_record(bank, columns, current_record[1].row)
           /\ Len(records') = Len(records)
                  + (IF C8_Substantive(current_record[1].row) THEN 1 ELSE 0) ]_vars

\* C8, witness: a noise line closed the open record, which went to the output
C8_Witness ==
    /\ pc = "pages" /\ Len(seen) >= 2 /\ verdict = "noise"
    /\ IsNoise(LastLine) /\ ~IsStart(LastLine)
    /\ current_record = None /\ Len(finalized_ids) = 1 /\ Len(records) = 1

\* one record at most is open, and a record is open or finalized, never both
\* and never twice
C9_OneOpen ==
    /\ \A i, j \in 1..Len(finalized_ids) :
          i # j => finalized_ids[i] # finalized_ids[j]
    /\ pc = "pages" =>
          /\ (current_record # None) <=> (open_id # 0)
          /\ open_id \notin FinalizedSet
          /\ FinalizedSet \cup ({open_id} \ {0}) = 1..n_opened

\* no opened record is lost: when extract_data is over, however it ended,
\* every record that was opened has been finalized
C9_NoneLost == pc = "done" => FinalizedSet = 1..n_opened

\* a record is finalized only by a line that is a transaction start or noise,
\* or by the end of the document, and what is finalized is the open record
C9_NoOtherPoint ==
    [][ finalized_ids' # finalized_ids
        => /\ open_id # 0
           /\ finalized_ids' = Append(finalized_ids, open_id)
           /\ \/ LineRead /\ (IsStart(NewLine) \/ IsNoise(NewLine))
              \/ pc = "pages" /\ pc' = "done" /\ verdict' = "end" ]_vars

\* the next start line, the next noise line and the end of the document each
\* finalize the record that is open
C9_AtNextPoint ==
    [][ (/\ open_id # 0
         /\ \/ LineRead /\ (IsStart(NewLine) \/ IsNoise(NewLine))
            \/ pc = "pages" /\ pc' = "done" /\ verdict' = "end")
        => finalized_ids' = Append(finalized_ids, open_id) ]_vars

\* C9 (as claimed): an opened record is finalized exactly once, at the next
\* start line, the next noise line or the end of the document and nowhere
\* else; one record at most is open, and none is lost, overwritten without
\* being finalized or finalized twice, whatever the lines of the pages are.
C9_AsClaimed ==
    []C9_OneOpen /\ []C9_NoneLost /\ C9_NoOtherPoint /\ C9_AtNextPoint

\* C10 (as claimed): when the document cannot be opened, what the caller
\* gets differs from the outcome of a successful run that found no record
\* (no exception, the empty list).
C10_OpenFailureTold ==
    (pc = "done" /\ handle = "none") => <<raised, result>> # <<"none", <<>>>>

\* C11 (as claimed): the engine makes one attempt to open the document: the
\* first pdfplumber.open either opens it or ends the run; no password is
\* prompted for and no second open is made.
C11_SingleOpenAttempt ==
    [][pc = "ready" => pc' \in {"pages", "done"}]_vars

\* C12 (as claimed): a fault while a line is processed drops that line only:
\* the records finalized from the earlier lines that carry a monetary value
\* are in the list extract_data returns.
C12_LineFaultKeepsRecords ==
    (pc = "done" /\ verdict = "line_fault")
    => \A i \in 1..Len(records) :
          has_money_value(records[i])
          => \E j \in 1..Len(result) : result[j] = records[i]

\* C13: no exception raised while a document is opened or parsed leaves
\* extract_data: the handler prints the cause and the empty list is returned,
\* so the caller's loop goes on to its next document.
C13_NoEscape ==
    /\ pc \in {"ready", "prompt", "pages", "done"} => raised = "none"
    /\ (pc = "done" /\ verdict # "end") => (logged /\ result = <<>>)

\* C13, witness: the processing of a line raised; the run ended with the
\* cause printed and the empty list, and nothing reached the caller
C13_Witness ==
    /\ pc = "done" /\ verdict = "line_fault" /\ Len(seen) >= 1
    /\ logged /\ result = <<>> /\ raised = "none"

\* C14: an engine constructed with a bank name that has no layout fails at
\* once with ValueError: no document is opened, no line read, nothing
\* returned.
C14_UnknownProfileFails ==
    (bank \notin Banks /\ pc # "new")
    => /\ pc = "failed" /\ raised = "ValueError"
       /\ handle = "none" /\ pending_doc = "none"
       /\ seen = <<>> /\ records = <<>> /\ result = <<>>

\* C14, witness: the constructor was given a name without a layout
C14_Witness == bank = "icici" /\ pc = "failed" /\ raised = "ValueError"

\* C15: an opened document is closed on every way out of extract_data: the
\* end of the page loop, an exception of the calibration, an exception of a
\* page or of a line.
C15_HandleReleased ==
    /\ pc = "done" => handle # "open"
    /\ verdict \in {"end", "calibration_fault", "page_fault", "line_fault"}
          => handle = "closed"

\* C15, witness: the calibration raised on a document that had been opened
C15_Witness ==
    pc = "done" /\ verdict = "calibration_fault" /\ handle = "closed"

\* C17: the line builder partitions the words of a page into lines: every
\* word of the page is in exactly one line and a line holds words of its page
\* only, the words of a line are in ascending order of x0, every word of a
\* later line lies below every word of an earlier line, and the lines of a
\* page are built after all lines of the pages before it.
C17_LinesPartition ==
    call.fn = "extract_words" =>
        \A p \in 1..Len(returned) :
            /\ \A i \in 1..Len(call.pages[p]) :
                 Cardinality(UNION {{<<l, k>> : k \in {n \in 1..Len(returned[p][l]) :
                                         returned[p][l][n] = call.pages[p][i]}} :
                                    l \in 1..Len(returned[p])}) = 1
            /\ \A l \in 1..Len(returned[p]) :
                 /\ returned[p][l] # <<>>
                 /\ \A k \in 1..Len(returned[p][l]) :
                      /\ \E i \in 1..Len(call.pages[p]) : returned[p][l][k] = call.pages[p][i]
                      /\ k > 1 => returned[p][l][k - 1].x0 <= returned[p][l][k].x0
                      /\ \A m \in (l + 1)..Len(returned[p]) :
                           \A j \in 1..Len(returned[p][m]) :
                               returned[p][l][k].top < returned[p][m][j].top

\* both pages are built; the first has one line of two words, collected
\* through their tops (10 then 12) and put in x0 order, the second a line too
C17_Witness ==
    /\ call.fn = "extract_words"
    /\ Len(returned) = 2
    /\ Len(call.pages[1]) = 2
    /\ call.pages[1][1].top = 12 /\ call.pages[1][1].x0 = 1
    /\ call.pages[1][2].top = 10 /\ call.pages[1][2].x0 = 2
    /\ returned[1] = << <<call.pages[1][1], call.pages[1][2]>> >>
    /\ Len(returned[2]) = 1

\* C18: the column a word is assigned to is a function of the coordinates: the
\* word's text is in the row of column c exactly when the overlap
\* min(word.x1, col.x1) - max(word.x0, col.x0) with c is strictly positive, no
\* column has a greater overlap and no column declared before c has the same;
\* a word with no positive overlap is in no column's row.
C18_ColumnAssignment ==
    (call.fn = "assign_columns" /\ returned # <<>>) =>
        \A c \in 1..Len(call.cols) :
            LET ov(n) == (IF call.line[1].x1 < call.cols[n].x1
                          THEN call.line[1].x1 ELSE call.cols[n].x1)
                         - (IF call.line[1].x0 > call.cols[n].x0
                            THEN call.line[1].x0 ELSE call.cols[n].x0)
            IN  returned[1][c] =
                    IF /\ ov(c) > 0
                       /\ \A n \in 1..Len(call.cols) : ov(n) <= ov(c)
                       /\ \A n \in 1..(c - 1) : ov(n) < ov(c)
                    THEN <<call.line[1].text>> ELSE <<>>

\* columns c1 (0 to 2) and c2 (1 to 3) both overlap the word (1 to 2) by 1:
\* the word went to c1, declared first
C18_Witness ==
    /\ call.fn = "assign_columns"
    /\ Len(call.cols) = 2
    /\ call.cols[1].x0 = 0 /\ call.cols[1].x1 = 2
    /\ call.cols[2].x0 = 1 /\ call.cols[2].x1 = 3
    /\ call.line[1].x0 = 1 /\ call.line[1].x1 = 2
    /\ returned = << << <<"w">>, <<>> >> >>

\* C19 (as claimed): when a continuation line is merged into the open record,
\* a column's value is left as it is when the line has nothing for the column
\* or the same text, and gains the line's text after one space otherwise; text
\* that the accumulated value already holds is not added a second time.
C19_NoRepeatedText ==
    [][(LineRead /\ verdict' = "continuation") =>
          \A k \in DOMAIN current_record[1].row :
              /\ current_record'[1].row[k] =
                    IF flat_row(NewLine, columns)[k] \in {<<>>, current_record[1].row[k]}
                    THEN current_record[1].row[k]
                    ELSE strip(current_record[1].row[k] \o <<" ">>
                                   \o flat_row(NewLine, columns)[k])
              /\ (/\ flat_row(NewLine, columns)[k] # <<>>
                  /\ Contains(current_record[1].row[k], flat_row(NewLine, columns)[k]))
                    => current_record'[1].row[k] = current_record[1].row[k]]_vars

\* what C20 reads in a record: its remarks, its reference, and whether it has
\* a value in a monetary column (a withdrawal or a deposit; the balance is
\* none for the merger)
C20_Remarks(r) == IF bank = "hdfc" THEN r["Narration"] ELSE r["Remarks"]
C20_Ref(r) == IF bank = "hdfc" THEN r["Chq./Ref.No."] ELSE r["Tran Id-1"]
C20_HasMoney(r) ==
    IF bank = "hdfc" THEN r["WithdrawalAmt"] # <<>> \/ r["DepositAmt"] # <<>>
    ELSE r["Withdrawals"] # <<>> \/ r["Deposits"] # <<>>
\* the input records whose remarks the output record out holds
C20_Parts(out) ==
    {i \in 1..Len(call.data) : Contains(C20_Remarks(out), C20_Remarks(call.data[i]))}

\* C20: every input record is part of exactly one output record and the
\* output keeps the input's order; an output record is an input record
\* unchanged, or holds two adjacent input records that have equal dates, equal
\* and non-empty references and of which exactly one has a monetary value, so
\* that two records that both have money or both lack it are never merged.
C20_MergeSafety ==
    (call.fn = "_merge_split_records" /\ returned # <<>>) =>
        /\ \A i \in 1..Len(call.data) :
             Cardinality({j \in 1..Len(returned[1]) : i \in C20_Parts(returned[1][j])}) = 1
        /\ \A j \in 1..Len(returned[1]) :
             /\ \A m \in (j + 1)..Len(returned[1]) :
                  \A i \in C20_Parts(returned[1][j]) :
                      \A n \in C20_Parts(returned[1][m]) : i < n
             /\ \E i \in 1..Len(call.data) :
                  \/ C20_Parts(returned[1][j]) = {i} /\ returned[1][j] = call.data[i]
                  \/ /\ C20_Parts(returned[1][j]) = {i, i + 1}
                     /\ i + 1 <= Len(call.data)
                     /\ call.data[i]["Date"] = call.data[i + 1]["Date"]
                     /\ C20_Ref(call.data[i]) = C20_Ref(call.data[i + 1])
                     /\ C20_Ref(call.data[i]) # <<>>
                     /\ C20_HasMoney(call.data[i]) # C20_HasMoney(call.data[i + 1])

\* of three records the first two were merged (same date, reference U1, a
\* deposit on the second only) and the third, which has the same date and
\* reference and a withdrawal, was kept apart
C20_Witness ==
    /\ call.fn = "_merge_split_records"
    /\ Len(call.data) = 3
    /\ \A i \in 1..3 : C20_Ref(call.data[i]) = <<"U","1">>
                        /\ call.data[i]["Date"] = call.data[1]["Date"]
    /\ ~C20_HasMoney(call.data[1])
    /\ C20_HasMoney(call.data[2]) /\ C20_HasMoney(call.data[3])
    /\ Len(returned) = 1 /\ Len(returned[1]) = 2
    /\ C20_Parts(returned[1][1]) = {1, 2}
    /\ returned[1][2] = call.data[3]

\* what extract_data returns for the lines from the n-th on when it runs
\* alone, with the open record and the closed records as given
RECURSIVE C16_Alone(_, _, _, _)
C16_Alone(lines, n, open_record, closed) ==
    IF n > Len(lines)
    THEN retain_money(merge_split_records(bank,
             flush_last(bank, LAYOUT_COLUMNS(bank), open_record, closed)))
    ELSE CHOOSE res \in
             {C16_Alone(lines, n + 1, r.current_record, r.records) :
                 r \in {process_line(bank, LAYOUT_COLUMNS(bank), open_record, closed,
                                     PlaceLine(bank, lines[n][1], lines[n][2]),
                                     page_height)}} : TRUE

\* C16: two extractions that run in separate worker threads do not touch one
\* another's state: thread w works on its own engine, whose column map stays
\* the layout's, and whatever the other thread did in between, the result of
\* a finished thread is the result of its document processed alone.
C16_ThreadsIndependent ==
    call.fn = "_run_extraction" =>
        \A w \in 1..2 :
            /\ workers.thread[w].pc # "queued" =>
                  workers.engine[w].columns = LAYOUT_COLUMNS(bank)
            /\ workers.thread[w].pc = "done" =>
                  workers.thread[w].result = C16_Alone(call.jobs[w], 1, None, <<>>)

\* a thread processed a line while the other was in the middle of its
\* document, and both returned lists that are not empty and differ
C16_Witness ==
    /\ call.fn = "_run_extraction"
    /\ workers.interleaved
    /\ workers.thread[1].pc = "done" /\ workers.thread[2].pc = "done"
    /\ workers.thread[1].result # <<>> /\ workers.thread[2].result # <<>>
    /\ workers.thread[1].result # workers.thread[2].result

\* C21: the merge pass is single-depth: an output record holds one input
\* record or two, never three, because the pass resumes after a merged pair
\* and does not compare the merged record with its next neighbour; the pass
\* ends with an output that is not longer than its input and, holding at most
\* two records in each, not shorter than half of it, so that a transaction
\* split over three adjacent records gives at least two output records.
C21_SingleDepth ==
    (call.fn = "_merge_split_records" /\ returned # <<>>) =>
        /\ Len(returned[1]) <= Len(call.data)
        /\ 2 * Len(returned[1]) >= Len(call.data)
        /\ \A j \in 1..Len(returned[1]) : Cardinality(C20_Parts(returned[1][j])) <= 2
        /\ Len(call.data) = 3 => Len(returned[1]) >= 2

\* three adjacent records of one date and reference U1, a deposit on the
\* second only: the first two were merged into a record with money, and the
\* third, which has none, was not merged into it
C21_Witness ==
    /\ call.fn = "_merge_split_records"
    /\ Len(call.data) = 3
    /\ \A i \in 1..3 : C20_Ref(call.data[i]) = <<"U","1">>
                        /\ call.data[i]["Date"] = call.data[1]["Date"]
    /\ ~C20_HasMoney(call.data[1]) /\ C20_HasMoney(call.data[2])
    /\ ~C20_HasMoney(call.data[3])
    /\ Len(returned) = 1 /\ Len(returned[1]) = 2
    /\ C20_HasMoney(returned[1][1])
    /\ returned[1][2] = call.data[3]

\* C22: with a record open, a line that is neither a start nor noise and
\* whose top is continuation_gap or more below the record's last top is
\* dropped: the open record, with its columns and its last top, is as it was,
\* it stays open, and no record is appended.
C22_GapDrop ==
    [][ (/\ LineRead /\ current_record # None
         /\ ~IsStart(NewLine) /\ ~IsNoise(NewLine)
         /\ NewLine[1].top - current_record[1].lt >= continuation_gap(bank))
        => /\ current_record' = current_record
           /\ records' = records
           /\ finalized_ids' = finalized_ids ]_vars

\* a line with columns, neither start nor noise nor header row, came too far
\* below the open record and was dropped
C22_Witness ==
    /\ pc = "pages" /\ Len(seen) >= 2 /\ verdict = "gap_drop"
    /\ current_record # None
    /\ ~IsStart(LastLine) /\ ~IsNoise(LastLine)
    /\ LastLine[1].top - current_record[1].lt >= continuation_gap(bank)

\* the flat row of a line has a value in a reference column: one whose name
\* holds "Ref", "Tran Id" or "UTR", the reference keys of _finalize_record
C23_HasReference(line) ==
    \E n \in 1..Len(columns) :
        /\ KeyHasAny(columns[n].name, FINALIZE_REF_KEYS)
        /\ flat_row(line, columns)[columns[n].name] # <<>>

\* C23 (as claimed): with no record open, a line that is neither a start nor
\* noise (nor a header row, which is skipped before) opens a tentative record
\* holding its flat row, with last top the line's top, if and only if the flat
\* row has a value in a reference column; otherwise the line is dropped and no
\* record is open after it.  No record is appended either way.
C23_OrphanStart ==
    [][ (/\ LineRead /\ current_record = None
         /\ ~IsStart(NewLine) /\ ~IsNoise(NewLine) /\ ~IsHeaderRow(NewLine))
        => /\ records' = records
           /\ current_record' =
                 IF C23_HasReference(NewLine)
                 THEN Some([row |-> flat_row(NewLine, columns), lt |-> NewLine[1].top])
                 ELSE None ]_vars

\* C24: is_transaction_start answers true exactly when the first word is not a
\* bare clock time and either (a) the first word begins with a date of the
\* bank's pattern and its x0 is below 120, or (b) the line's text holds a date
\* somewhere, holds one of the bank's start keywords, and the first word's x0
\* is below 150; a clock time in front rejects the line even when (b) holds,
\* and a keyword on a line without any date never starts a transaction
C24_StartRule ==
    (call.fn = "is_transaction_start" /\ returned # <<>>) =>
        LET first == call.line[1].text
            x0 == call.line[1].x0
            text == line_text(call.line)
            keyword == ContainsAny(lower(text), TRANSACTION_START_KEYWORDS(bank))
            case_a == DateMatchAt(bank, first, 1) /\ x0 < 120
            case_b == DateSearch(bank, text) /\ keyword /\ x0 < 150
        IN  /\ returned[1] <=> (~IsClockTime(first) /\ (case_a \/ case_b))
            /\ IsClockTime(first) => ~returned[1]
            /\ (keyword /\ ~DateSearch(bank, text)) => ~returned[1]

\* a clock time in front of a keyword and a date at x0 100 has been rejected,
\* for the bank whose pattern needs two-digit days
C24_Witness ==
    /\ call.fn = "is_transaction_start" /\ returned = <<FALSE>>
    /\ bank = "union_bank"
    /\ Len(call.line) = 3 /\ call.line[1].x0 = 100
    /\ IsClockTime(call.line[1].text)
    /\ DateSearch(bank, line_text(call.line))
    /\ ContainsAny(lower(line_text(call.line)), TRANSACTION_START_KEYWORDS(bank))

\* C25 (as claimed): for both banks, cleaning a monetary column gives the empty
\* text when the raw value holds a letter, and otherwise the raw value with
\* every character removed except digits, the decimal point, the comma and
\* the minus sign
C25_MonetaryCleaning ==
    (/\ call.fn = "clean_data" /\ returned # <<>>
     /\ call.cat \in {"WithdrawalAmt", "DepositAmt", "ClosingBalance",
                      "Withdrawals", "Deposits", "Balance"}) =>
        returned[1] = IF \E i \in 1..Len(call.val) : IsAlpha(call.val[i]) THEN <<>>
                      ELSE KeepChars(call.val, Digit \cup {".", ",", "-"})

\* C26 (as claimed): the Union Bank post_process_record empties the balance
\* only at the end of a balance-bleed repair, so a record that comes in with a
\* withdrawal or a deposit leaves with the balance it came in with, also when
\* that balance equals the amount
C26_BalanceKept ==
    (/\ call.fn = "post_process_record" /\ returned # <<>>
     /\ (call.record["Withdrawals"] # <<>> \/ call.record["Deposits"] # <<>>)) =>
        returned[1]["Balance"] = call.record["Balance"]

\* C27: calibration commits no refined range: once the engine is built, and
\* so for every line of every page read after calibration has run, the column
\* ranges in use are the defaults of the bank's layout
C27_ColumnsFixed ==
    pc \in {"ready", "prompt", "pages", "done"} => columns = LAYOUT_COLUMNS(bank)

\* calibration has run and a line of the second page has been placed in the
\* layout's default columns
C27_Witness ==
    /\ pc = "pages" /\ page = 2 /\ Len(seen) >= 1 /\ seen[Len(seen)].page = 2
    /\ verdict \in {"start", "continuation"}
    /\ columns = LAYOUT_COLUMNS(bank)

\* C28 (as claimed): for both banks, every finalized record that holds a
\* withdrawal or a deposit passes the final filter of extract_data and is in
\* the returned list
C28_MoneyRetained ==
    pc = "done" =>
        \A i \in 1..Len(merged) :
            (\E k \in DOMAIN merged[i] \cap {"Withdraw", "Withdrawal", "Deposit"} :
                merged[i][k] # <<>>)
            => \E j \in 1..Len(result) : result[j] = merged[i]

\* C29: the gap test compares tops of different pages as they are: when the
\* first line read on a page is neither a start nor noise nor a header row,
\* has columns, and its top is less than continuation_gap below the last top
\* of the record left open on the page before, the line is merged into that
\* record and the record's last top becomes the line's top
C29_PageBreakContinuation ==
    [][ (/\ LineRead /\ current_record # None
         /\ seen # <<>> /\ seen[Len(seen)].page < page
         /\ ~IsStart(NewLine) /\ ~IsNoise(NewLine) /\ ~IsHeaderRow(NewLine)
         /\ any_row_data(NewLine, columns)
         /\ NewLine[1].top < current_record[1].lt + continuation_gap(bank))
        => /\ current_record' # None
           /\ current_record'[1].lt = NewLine[1].top
           /\ current_record'[1].row =
                  merge_continuation(current_record[1].row, flat_row(NewLine, columns))
           /\ records' = records
           /\ finalized_ids' = finalized_ids ]_vars

\* the first line of the second page, higher on its page than the last line
\* of the record on the first, has been merged into that record
C29_Witness ==
    /\ pc = "pages" /\ page = 2 /\ Len(seen) >= 2
    /\ seen[Len(seen)].page = 2 /\ seen[Len(seen) - 1].page = 1
    /\ seen[Len(seen)].top < seen[Len(seen) - 1].top
    /\ verdict = "continuation"
    /\ current_record # None /\ current_record[1].lt = seen[Len(seen)].top
    /\ ~IsStart(LastLine) /\ ~IsNoise(LastLine) /\ ~IsHeaderRow(LastLine)

\* C30: on every page, a line above header_y_max whose text holds "Date" and
\* that is not a transaction start is skipped before it is classified as
\* noise: the open record with its last top, the records collected and the
\* set of finalized records are as they were, so a table header repeated on a
\* new page does not finalize the record left open across the page break
C30_HeaderSkip ==
    [][ (LineRead /\ IsHeaderRow(NewLine) /\ ~IsStart(NewLine))
        => /\ verdict' = "header_skip"
           /\ current_record' = current_record
           /\ records' = records
           /\ finalized_ids' = finalized_ids ]_vars

\* a header row that the noise test accepts came first on the second page
\* while a record of the first page was open, and the record is still open
C30_Witness ==
    /\ pc = "pages" /\ page = 2 /\ Len(seen) >= 2
    /\ seen[Len(seen)].page = 2 /\ seen[Len(seen) - 1].page = 1
    /\ verdict = "header_skip"
    /\ IsHeaderRow(LastLine) /\ ~IsStart(LastLine) /\ IsNoise(LastLine)
    /\ current_record # None /\ current_record[1].lt = seen[Len(seen) - 1].top
    /\ records = <<>>

=============================================================================
